---- MODULE Spec2Model ----
(***************************************************************************)
(* Dataset context cache and derived-artifact pipeline of bildutforskaren. *)
(*                                                                         *)
(* Spec       ContextCache (api/context_cache.py) driven by concurrent     *)
(*            callers of get and invalidate.                               *)
(* SpecBuild  build_context (api/context.py) run repeatedly over one       *)
(*            dataset directory whose thumbnails come and go.              *)
(* SpecJob    one dataset from creation on: concurrent upload-zip and      *)
(*            resume-processing requests, the processing jobs (api/jobs.py)*)
(*            on the executor's single worker, and the dataset-scoped      *)
(*            requests that ask for its context.                           *)
(* SpecJobFair SpecJob with the worker thread taking every step it can.    *)
(* SpecCrash  SpecBuild with the process ending while the embedding        *)
(*            archive is being written.                                    *)
(* SpecSearch _search_with_ids (api/routes_dataset_scoped.py) applied to   *)
(*            an index, a query, a k and a list of ids.                    *)
(* SpecServe  layout and search requests (get_umap, search) of concurrent  *)
(*            threads on one dataset whose status is ready.                *)
(* SpecLayout SpecServe with the legacy GET layout request, a layout cache *)
(*            file left by the previous version and failing file writes.   *)
(* SpecImageSearch  search_by_image (api.py) applied to an index, an image *)
(*            feature vector and a request form.                           *)
(* SpecFair   Spec with every thread inside get running on.                *)
(* SpecResume a server started over a dataset whose job did not finish:    *)
(*            concurrent resume-processing requests and the worker.        *)
(* SpecTextLayout  the placing of texts in a layout (get_umap) applied to  *)
(*            an index, a list of ids, a list of texts and a text_k.       *)
(* SpecEmbed  embed_images (api/clip_service.py), one step per batch.      *)
(***************************************************************************)
EXTENDS Integers, Sequences, FiniteSets, TLC

\* ------------------------------------------------------------------ bounds
NumThreads == 3
NumDatasets == 3
MaxCalls == 4

NumPaths == 3
NumImages == 2
MaxRuns == 3
MaxJobs == 2
MaxRequests == 2
NumVectors == 2
MaxCoord == 1
MaxIds == 2
MaxZip == 2
MaxTexts == 2
MaxEmbed == 70
NumOriginals == 51

\* --------------------------------------------------------------- constants
CONTEXT_CACHE_MAX == 2
PCA_DEFAULT_DIM == 50
PROGRESS_EVERY == 50
UMAP_CACHE_VERSION == 5
TOP_K_DEFAULT == 100
TOP_K == 100
CLIP_DIM == 768
batch_size == 32

Worker == 0
Threads == 1..NumThreads
AllThreads == {Worker} \cup Threads
Datasets == 1..NumDatasets

NoThread == -1
NoLock == -2
NoDataset == 0
NoCtx == [ds |-> 0, n |-> 0]

VARIABLES
    cache,          \* ContextCache._cache: OrderedDict, oldest entry first
    cache_lock,     \* ContextCache._cache_lock: holder thread or NoThread
    build_locks,    \* ContextCache._build_locks: id -> NoLock | NoThread | holder
    pc,             \* position of each thread inside get / invalidate
    dataset_id,     \* argument of the call a thread is executing
    ctx,            \* local `ctx` of get (while the builder runs: the object it is making)
    builds,         \* history: builder invocations started, per id
    calls,          \* history: calls started
    named,          \* history: number of distinct dataset ids named by callers
    returned,       \* history: contexts returned by get, per id
    invalidated,    \* history: invalidate(id) has run
    evicted,        \* history: id was dropped by the LRU loop
    failed,         \* history: a builder for id has raised
    collapsed,      \* history: a get(id) waited for the build lock and then hit
    promoted,       \* history: a hit moved id past another entry
    floor,          \* history: builder invocations seen by the last invalidate(id)
                    \*          that ran while no build for id was in flight
    recency,        \* history: ids by last access (hit or insertion), oldest first
    stale           \* history: builder invocations started when invalidate(id) last returned

VARIABLES
    thumb_root,         \* image files under cfg.thumb_root
    cache_file,         \* cfg.cache_file (clip_index.npz): NoFile or the archive
    pca_cache_file,     \* cfg.pca_cache_file: NoFile or the projection archive
    pca_model_file,     \* cfg.pca_model_file: NoFile or the pickled projector
    bpc,                \* position inside build_context
    image_paths,        \* build_context local
    embeddings,         \* build_context local
    pca_embeddings_np,  \* build_context local
    built,              \* the DatasetContext build_context returned last
    runs,               \* history: build_context runs started
    embed_calls,        \* history: clip_service.embed_images calls
    fit_calls,          \* history: PCA fits
    embed_at_start,     \* history: embed_calls when the current run started
    archive_at_start,   \* history: cfg.cache_file when the current run started
    prev                \* history: path list and archive left by the last completed run

buildVars == <<thumb_root, cache_file, pca_cache_file, pca_model_file, bpc, image_paths,
               embeddings, pca_embeddings_np, built, runs, embed_calls, fit_calls,
               embed_at_start, archive_at_start, prev>>

VARIABLES
    status,             \* "status" of the dataset's dataset.json
    meta_error,         \* "error" of the dataset's dataset.json
    job_state,          \* JobManager._state[dataset_id]
    jpc,                \* position of the worker inside process_uploaded_dataset
    originals,          \* image files under cfg.original_root
    readable,           \* the originals PIL can open and convert
    idx,                \* process_uploaded_dataset locals
    processed,
    skipped,
    exc,                \* str(exc) of the exception on its way to the handler
    submissions,        \* history: submit_processing calls
    refused,            \* history: a context request got 409 after a job had ended
    handler,            \* the upload-zip or resume-processing handler on each thread
    pending,            \* tasks waiting in the ThreadPoolExecutor's queue
    collected,          \* process_uploaded_dataset local: the originals found at line 26
    answers,            \* history: the responses of upload-zip and resume-processing
    unhandled           \* history: the last task ended by an exception that left the function

jobVars == <<status, meta_error, job_state, jpc, originals, readable, idx, processed,
             skipped, exc, submissions, refused, handler, pending, collected, answers,
             unhandled>>

VARIABLES
    req,                \* the dataset-scoped request each thread is serving
    umap_mem,           \* ctx.umap_cache of the context of each build
    umap_cache_file,    \* cfg.umap_cache_file (umap_cache.pkl)
    umap_writers,       \* threads between open("wb") and the end of pickle.dump
    layout_runs,        \* history: reducer.fit_transform calls
    replies             \* history: the responses sent, in the order they were sent

VARIABLES
    index_vectors,      \* the rows of ctx.embeddings a search runs over
    query_vec,          \* the query vector of the searches
    full_search,        \* the last unrestricted search: its k and its results
    subset_search,      \* the last subset search: its k, its ids and its results
    image_search,       \* the last search by image: its form and its response
    text_layout,        \* the last placing of texts in a layout: its input and response
    embed_run           \* the embed_images call under way: its locals and callbacks

serveVars == <<req, umap_mem, umap_cache_file, umap_writers, layout_runs, replies>>

cacheVars == <<cache, cache_lock, build_locks, pc, dataset_id, ctx>>
histVars == <<builds, calls, named, returned, invalidated, evicted, failed, collapsed,
              promoted, floor, recency, stale>>
searchVars == <<index_vectors, query_vec, full_search, subset_search, image_search,
                text_layout, embed_run>>
vars == <<cacheVars, histVars, buildVars, jobVars, serveVars, searchVars>>

\* ------------------------------------------------------- OrderedDict helpers
max_size == CONTEXT_CACHE_MAX

Keys(c) == {c[i].key : i \in 1..Len(c)}

Has(c, d) == d \in Keys(c)

Lookup(c, d) == (CHOOSE i \in 1..Len(c) : c[i].key = d)

CacheGet(c, d) == IF Has(c, d) THEN c[Lookup(c, d)].ctx ELSE NoCtx

Without(c, d) == SelectSeq(c, LAMBDA e : e.key # d)

\* mutant: the entry is not promoted
MoveToEnd_Stays(c, d) == c

MoveToEnd(c, d) == Append(Without(c, d), c[Lookup(c, d)])

SetItem(c, d, x) ==
    IF Has(c, d)
    THEN [i \in 1..Len(c) |-> IF c[i].key = d THEN [key |-> d, ctx |-> x] ELSE c[i]]
    ELSE Append(c, [key |-> d, ctx |-> x])

\* mutant: popitem() with its default last=True
PopItemFirst_Last(c) == SubSeq(c, 1, Len(c) - 1)

PopItemFirst(c) == Tail(c)

\* mutant: the entry is left in place
Pop_Keeps(c, d) == c

Pop(c, d) == Without(c, d)

Touch(r, d) == Append(SelectSeq(r, LAMBDA k : k # d), d)

RECURSIVE SumTo(_, _)
SumTo(f, k) == IF k = 0 THEN 0 ELSE f[k] + SumTo(f, k - 1)

TotalBuilds == SumTo(builds, NumDatasets)

InFlight(d) ==
    \E t \in AllThreads :
        dataset_id[t] = d /\ pc[t] = "g_building"

\* ----------------------------------------------------- files and arrays
Paths == 1..NumPaths

NoFile == [kind |-> "missing"]
\* a file whose writer died before np.savez_compressed had written all of it
PartialFile == [kind |-> "partial"]
None == [kind |-> "None"]
NoRun == [kind |-> "none"]

\* a pathlib.Path under thumb_root, and str(p)
PathOf(i) == [kind |-> "Path", name |-> i]

Str(p) == [kind |-> "str", name |-> p.name]

\* sorted(...) of collect_image_paths: Path objects in ascending order
RECURSIVE SortedPaths(_)
SortedPaths(S) ==
    IF S = {} THEN <<>>
    ELSE LET m == CHOOSE x \in S : \A y \in S : x <= y
         IN <<PathOf(m)>> \o SortedPaths(S \ {m})

collect_image_paths(root) == SortedPaths(root)

\* [str(p) for p in paths]
StrList(paths) == [kind |-> "list", items |-> [i \in 1..Len(paths) |-> Str(paths[i])]]

\* np.array([...]) of str and its .tolist(): a fixed-width unicode array keeps
\* the strings and their order; np.array([]) is an empty float64 array
NpArray(list) ==
    [kind |-> "ndarray", dtype |-> IF Len(list.items) = 0 THEN "float64" ELSE "U",
     items |-> list.items]

ToList(arr) == [kind |-> "list", items |-> arr.items]

\* an embedding matrix is a record of its element type and its rows; a row is
\* the vector the model gave image p in its call number k
Row(p, k) == [of |-> p.name, call |-> k]

Matrix(dtype, width, rows) ==
    [kind |-> "matrix", dtype |-> dtype, width |-> width, rows |-> rows]

\* emb.cpu().numpy().astype("float32") and torch.from_numpy
AsFloat32(m) == [m EXCEPT !.dtype = "float32"]

NumRows(m) == Len(m.rows)

\* --------------------------------------------------------------------- Init
InitBuild ==
    /\ thumb_root = {}
    /\ cache_file = NoFile
    /\ pca_cache_file = NoFile
    /\ pca_model_file = NoFile
    /\ bpc = "b_idle"
    /\ image_paths = <<>>
    /\ embeddings = None
    /\ pca_embeddings_np = None
    /\ built = None
    /\ runs = 0
    /\ embed_calls = 0
    /\ fit_calls = 0
    /\ embed_at_start = 0
    /\ archive_at_start = NoFile
    /\ prev = NoRun

InitCache ==
    /\ cache = <<>>
    /\ cache_lock = NoThread
    /\ build_locks = [d \in Datasets |-> NoLock]
    /\ pc = [t \in AllThreads |-> "idle"]
    /\ dataset_id = [t \in AllThreads |-> NoDataset]
    /\ ctx = [t \in AllThreads |-> NoCtx]
    /\ builds = [d \in Datasets |-> 0]
    /\ calls = 0
    /\ named = 0
    /\ returned = [d \in Datasets |-> {}]
    /\ invalidated = [d \in Datasets |-> FALSE]
    /\ evicted = [d \in Datasets |-> FALSE]
    /\ failed = [d \in Datasets |-> FALSE]
    /\ collapsed = [d \in Datasets |-> FALSE]
    /\ promoted = [d \in Datasets |-> FALSE]
    /\ floor = [d \in Datasets |-> 0]
    /\ recency = <<>>
    /\ stale = [d \in Datasets |-> 0]

\* "error": null in dataset.json
NoError == "null"

\* a key the job state dictionary does not hold yet
NoKey == "absent"
NoCount == -1
NoProgress == [num |-> 0, den |-> 0]

\* a progress value: the quotient num / den
Frac(a, b) == [num |-> a, den |-> b]

\* no upload or resume handler is running on the thread
NoHandler == [op |-> "none", at |-> "idle", n |-> 0, r |-> {}, status |-> "absent",
              error |-> "absent", cached |-> FALSE]

\* no request under way, the executor's queue empty
InitHandlers ==
    /\ handler = [t \in Threads |-> NoHandler]
    /\ pending = 0
    /\ collected = {}
    /\ answers = <<>>
    /\ unhandled = FALSE

\* after create_dataset (datasets.py 82-105) and JobManager.__init__
InitJob ==
    /\ status = "created"
    /\ meta_error = NoError
    /\ job_state = [stage |-> NoKey, progress |-> NoProgress, processed |-> NoCount,
                    skipped |-> NoCount, error |-> NoKey]
    /\ jpc = "j_none"
    /\ originals = {}
    /\ readable = {}
    /\ idx = 0
    /\ processed = 0
    /\ skipped = 0
    /\ exc = NoKey
    /\ submissions = 0
    /\ refused = FALSE
    /\ InitHandlers

\* no request in progress
NoReq == [op |-> "none", stage |-> "idle", id |-> 0, seen |-> 0, n |-> 0,
          input |-> None, key |-> None, body |-> None, raced |-> FALSE,
          wrote |-> "no"]

\* a ctx.umap_cache dictionary is the set of its [k, v] items
EmptyDict == {}

\* the contexts are numbered by the builder call that made them
CtxIds == 1..MaxCalls

InitServe ==
    /\ req = [t \in Threads |-> NoReq]
    /\ umap_mem = [n \in CtxIds |-> EmptyDict]
    /\ umap_cache_file = NoFile
    /\ umap_writers = {}
    /\ layout_runs = 0
    /\ replies = <<>>

\* no search has been made
InitSearch ==
    /\ index_vectors = <<>>
    /\ query_vec = <<>>
    /\ full_search = None
    /\ subset_search = None
    /\ image_search = None
    /\ text_layout = None
    /\ embed_run = None

Init == InitCache /\ InitBuild /\ InitJob /\ InitServe /\ InitSearch

\* ------------------------------------------------------------ ContextCache
\* A `with self._cache_lock:` block whose body is straight-line bookkeeping is one
\* step, taken when the lock is free; the insertion block, which loops, holds the
\* lock across its steps. Leaving a lock and the thread-local code around a block
\* belong to the step of the block before them.
Goto(t, l) == pc' = [pc EXCEPT ![t] = l]

\* the call is over: the thread is free for another request
Leave(t) ==
    /\ pc' = [pc EXCEPT ![t] = "idle"]
    /\ dataset_id' = [dataset_id EXCEPT ![t] = NoDataset]
    /\ ctx' = [ctx EXCEPT ![t] = NoCtx]

\* dataset ids are opaque (uuid4 hex): they are numbered in the order in which
\* callers first name them
Nameable(d) == d <= named + 1

Name(d) ==
    /\ calls < MaxCalls
    /\ Nameable(d)
    /\ calls' = calls + 1
    /\ named' = IF d > named THEN d ELSE named

\* request threads are interchangeable: a new call goes to the lowest-numbered
\* thread that is not inside get
FirstIdle(t) == \A u \in Threads : u < t => (pc[u] # "idle" \/ req[u] # NoReq)

\* a hit under the cache lock: self._cache.move_to_end(dataset_id)
Hit(d) ==
    /\ cache' = MoveToEnd(cache, d)
    /\ recency' = Touch(recency, d)
    /\ promoted' = IF cache[Len(cache)].key # d
                   THEN [promoted EXCEPT ![d] = TRUE]
                   ELSE promoted

\* mutant: the build lock is acquired inside the `with self._cache_lock:` block
GetCheck1_KeepsCacheLock(t, d) ==
    /\ pc[t] = "idle"
    /\ FirstIdle(t)
    /\ Name(d)
    /\ cache_lock = NoThread
    /\ IF Has(cache, d)
       THEN /\ Hit(d)
            /\ returned' = [returned EXCEPT ![d] = @ \cup {CacheGet(cache, d)}]
            /\ UNCHANGED <<cache_lock, build_locks, pc, dataset_id, ctx>>
       ELSE /\ build_locks' = IF build_locks[d] = NoLock
                              THEN [build_locks EXCEPT ![d] = NoThread]
                              ELSE build_locks
            /\ dataset_id' = [dataset_id EXCEPT ![t] = d]
            /\ cache_lock' = t
            /\ Goto(t, "g_acq_build")
            /\ UNCHANGED <<cache, ctx, recency, returned, promoted>>
    /\ UNCHANGED <<builds, invalidated, evicted, failed, collapsed, floor,
                   stale>>

\* get(dataset_id, builder), lines 25-31: a hit returns the entry; a miss fetches
\* the id's build lock (_get_build_lock creates it on first use)
GetCheck1(t, d) ==
    /\ pc[t] = "idle"
    /\ FirstIdle(t)
    /\ Name(d)
    /\ cache_lock = NoThread
    /\ IF Has(cache, d)
       THEN /\ Hit(d)
            /\ returned' = [returned EXCEPT ![d] = @ \cup {CacheGet(cache, d)}]
            /\ UNCHANGED <<build_locks, pc, dataset_id, ctx>>
       ELSE /\ build_locks' = IF build_locks[d] = NoLock
                              THEN [build_locks EXCEPT ![d] = NoThread]
                              ELSE build_locks
            /\ dataset_id' = [dataset_id EXCEPT ![t] = d]
            /\ Goto(t, "g_acq_build")
            /\ UNCHANGED <<cache, ctx, recency, returned, promoted>>
    /\ UNCHANGED <<cache_lock, builds, invalidated, evicted, failed, collapsed, floor,
                   stale>>

\* mutant: the build lock is taken without waiting for its holder
BuildLockFree_NoWait(d) == TRUE

\* `with build_lock:` (line 32) blocks until the lock of this id is free.
\* Taking the lock commutes with the steps of the other threads, so it is taken
\* in the step that runs the block of lines 33-37
BuildLockFree(d) == build_locks[d] = NoThread

\* get, lines 35-37 under the build lock: the entry is there by now; leaving the
\* with blocks releases the build lock
Check2Hit(t) ==
    LET d == dataset_id[t] IN
    /\ Hit(d)
    /\ build_locks' = [build_locks EXCEPT ![d] = NoThread]
    /\ returned' = [returned EXCEPT ![d] = @ \cup {CacheGet(cache, d)}]
    /\ collapsed' = [collapsed EXCEPT ![d] = TRUE]
    /\ Leave(t)
    /\ UNCHANGED <<cache_lock, builds, calls, named, invalidated, evicted, failed, floor,
                   stale>>

\* mutant: the builder is called inside the `with self._cache_lock:` block
CallBuilder_UnderCacheLock(t) ==
    LET d == dataset_id[t] IN
    /\ cache_lock' = t
    /\ build_locks' = [build_locks EXCEPT ![d] = t]
    /\ builds' = [builds EXCEPT ![d] = @ + 1]
    /\ ctx' = [ctx EXCEPT ![t] = [ds |-> d, n |-> TotalBuilds + 1]]
    /\ Goto(t, "g_building")
    /\ UNCHANGED <<cache, dataset_id, calls, named, returned,
                   invalidated, evicted, failed, collapsed, promoted, floor, recency,
                   stale>>

\* get, line 39: the cache lock is left and builder(dataset_id) is called with
\* the build lock held
CallBuilder(t) ==
    LET d == dataset_id[t] IN
    /\ build_locks' = [build_locks EXCEPT ![d] = t]
    /\ builds' = [builds EXCEPT ![d] = @ + 1]
    /\ ctx' = [ctx EXCEPT ![t] = [ds |-> d, n |-> TotalBuilds + 1]]
    /\ Goto(t, "g_building")
    /\ UNCHANGED <<cache, cache_lock, dataset_id, calls, named, returned,
                   invalidated, evicted, failed, collapsed, promoted, floor, recency,
                   stale>>

\* mutant: no second look at the cache under the build lock
GetCheck2_NoRecheck(t) ==
    /\ pc[t] = "g_acq_build"
    /\ BuildLockFree(dataset_id[t])
    /\ cache_lock = NoThread
    /\ CallBuilder(t)

\* get, lines 32-39: with the build lock, a hit returns the entry; a miss calls
\* the builder
GetCheck2(t) ==
    /\ pc[t] = "g_acq_build"
    /\ BuildLockFree(dataset_id[t])
    /\ cache_lock = NoThread
    /\ IF Has(cache, dataset_id[t]) THEN Check2Hit(t) ELSE CallBuilder(t)

\* mutant: the exception escapes without the build lock being released
BuilderRaise_KeepsBuildLock(t) ==
    LET d == dataset_id[t] IN
    /\ pc[t] = "g_building"
    /\ failed' = [failed EXCEPT ![d] = TRUE]
    /\ Leave(t)
    /\ UNCHANGED <<cache, cache_lock, build_locks, builds, calls, named, returned,
                   invalidated, evicted, collapsed, promoted, floor, recency,
                   stale>>

\* the builder raises: the exception leaves `with build_lock:` and get
BuilderRaise(t) ==
    LET d == dataset_id[t] IN
    /\ pc[t] = "g_building"
    /\ build_locks' = [build_locks EXCEPT ![d] = NoThread]
    /\ failed' = [failed EXCEPT ![d] = TRUE]
    /\ Leave(t)
    /\ UNCHANGED <<cache, cache_lock, builds, calls, named, returned, invalidated,
                   evicted, collapsed, promoted, floor, recency,
                   stale>>

\* the builder returns; lines 41-43: with self._cache_lock:
\* self._cache[dataset_id] = ctx; self._cache.move_to_end(dataset_id)
GetInsert(t) ==
    LET d == dataset_id[t] IN
    /\ pc[t] = "g_building"
    /\ cache_lock = NoThread
    /\ cache_lock' = t
    /\ cache' = MoveToEnd(SetItem(cache, d, ctx[t]), d)
    /\ recency' = Touch(recency, d)
    /\ Goto(t, "g_evict")
    /\ UNCHANGED <<build_locks, dataset_id, ctx, builds, calls, named, returned,
                   invalidated, evicted, failed, collapsed, promoted, floor,
                   stale>>

\* mutant: the loop stops one entry too early
OverCapacity_OffByOne(c) == Len(c) > max_size + 1

\* the loop condition of line 44
OverCapacity(c) == Len(c) > max_size

\* lines 44-47: while len(self._cache) > self._max_size:
\* self._cache.popitem(last=False); then both locks are left and ctx is returned
GetEvict(t) ==
    LET d == dataset_id[t] IN
    /\ pc[t] = "g_evict"
    /\ cache_lock = t
    /\ IF OverCapacity(cache)
       THEN /\ cache' = PopItemFirst(cache)
            /\ evicted' = [k \in Datasets |->
                              evicted[k] \/ (Has(cache, k) /\ ~Has(PopItemFirst(cache), k))]
            /\ UNCHANGED <<cache_lock, build_locks, pc, dataset_id, ctx, returned>>
       ELSE /\ cache_lock' = NoThread
            /\ build_locks' = [build_locks EXCEPT ![d] = NoThread]
            /\ returned' = [returned EXCEPT ![d] = @ \cup {ctx[t]}]
            /\ Leave(t)
            /\ UNCHANGED <<cache, evicted>>
    /\ UNCHANGED <<builds, calls, named, invalidated, failed, collapsed, promoted, floor,
                   recency,
                   stale>>

\* invalidate(dataset_id): self._cache.pop(dataset_id, None)
Invalidate(t, d) ==
    /\ pc[t] = "idle"
    /\ Name(d)
    /\ cache_lock = NoThread
    /\ cache' = Pop(cache, d)
    /\ invalidated' = [invalidated EXCEPT ![d] = TRUE]
    /\ floor' = IF InFlight(d) THEN floor ELSE [floor EXCEPT ![d] = TotalBuilds]
    /\ stale' = [stale EXCEPT ![d] = TotalBuilds]
    /\ UNCHANGED <<cache_lock, build_locks, pc, dataset_id, ctx, builds, returned,
                   evicted, failed, collapsed, promoted, recency>>

Next ==
    \/ \E t \in Threads, d \in Datasets : GetCheck1(t, d) /\ UNCHANGED <<buildVars, jobVars, serveVars, searchVars>>
    \/ \E t \in Threads : GetCheck2(t) /\ UNCHANGED <<buildVars, jobVars, serveVars, searchVars>>
    \/ \E t \in Threads : BuilderRaise(t) /\ UNCHANGED <<buildVars, jobVars, serveVars, searchVars>>
    \/ \E t \in Threads : GetInsert(t) /\ UNCHANGED <<buildVars, jobVars, serveVars, searchVars>>
    \/ \E t \in Threads : GetEvict(t) /\ UNCHANGED <<buildVars, jobVars, serveVars, searchVars>>
    \/ \E t \in Threads, d \in Datasets : Invalidate(t, d) /\ UNCHANGED <<buildVars, jobVars, serveVars, searchVars>>

Spec == Init /\ [][Next]_vars

\* a thread inside get runs on: a `with` statement whose lock is free and stays
\* free is entered, and the builder it called comes back (returns or raises)
GetStep(t) ==
    (GetCheck2(t) \/ BuilderRaise(t) \/ GetInsert(t) \/ GetEvict(t))
        /\ UNCHANGED <<buildVars, jobVars, serveVars, searchVars>>

SpecFair == Spec /\ \A t \in Threads : WF_vars(GetStep(t))

\* ------------------------------------------------------------ build_context
\* api/indexing.py. A file is NoFile or the value np.load gives back.
save_cache_PathObjects(emb, paths) ==
    [embeddings |-> AsFloat32(emb), paths |-> NpArray([kind |-> "list", items |-> paths])]

save_cache(emb, paths) ==
    [embeddings |-> AsFloat32(emb), paths |-> NpArray(StrList(paths))]

\* np.load of a zip archive that was not written to its end raises
LoadRaises(file) == file = PartialFile

load_cache(file) ==
    IF file = NoFile
    THEN [cached_paths |-> None, embeddings |-> None]
    ELSE [cached_paths |-> ToList(file.paths), embeddings |-> file.embeddings]

\* mutant: the last path of the list gets no row
embed_images_DropsLast(paths, k) ==
    Matrix("float32", CLIP_DIM, [i \in 1..(Len(paths) - 1) |-> Row(paths[i], k)])

\* clip_service.embed_images: one row per path, in input order; torch.cat of no
\* batches raises
embed_images(paths, k) ==
    Matrix("float32", CLIP_DIM, [i \in 1..Len(paths) |-> Row(paths[i], k)])

Min2(a, b) == IF a <= b THEN a ELSE b

\* compute_and_cache_pca: k = min(cfg.pca_dim, rows, columns) components
PcaWidth(emb) == Min2(PCA_DEFAULT_DIM, Min2(NumRows(emb), emb.width))

PcaFit(emb, f) == [kind |-> "pca", fit |-> f, dim |-> PcaWidth(emb)]

PcaTransform(model, emb) ==
    Matrix("float32", model.dim,
           [i \in 1..NumRows(emb) |-> [row |-> emb.rows[i], fit |-> model.fit]])

save_pca_cache(pca_emb, paths) ==
    [embeddings |-> AsFloat32(pca_emb), paths |-> NpArray(StrList(paths)),
     dim |-> pca_emb.width]

load_pca_cache(file) ==
    IF file = NoFile
    THEN [cached_paths |-> None, pca_emb |-> None]
    ELSE [cached_paths |-> ToList(file.paths), pca_emb |-> AsFloat32(file.embeddings)]

\* mutant: the archive is taken for current when it has as many entries as the list
EmbeddingCacheHit_LengthOnly(loaded, paths) ==
    /\ loaded.cached_paths # None
    /\ Len(loaded.cached_paths.items) = Len(paths)
    /\ loaded.embeddings # None

\* the test of context.py line 169
EmbeddingCacheHit(loaded, paths) ==
    loaded.cached_paths = StrList(paths) /\ loaded.embeddings # None

\* mutant: a persisted projection with as many rows as the list is taken for current
PcaCacheHit_LengthOnly(loaded, paths) ==
    /\ loaded.pca_emb # None
    /\ NumRows(loaded.pca_emb) = Len(paths)
    /\ loaded.pca_emb.width <= PCA_DEFAULT_DIM

\* mutant: any persisted projection is taken for current
PcaCacheHit_AnyArchive(loaded, paths) ==
    /\ loaded.pca_emb # None
    /\ loaded.pca_emb.width <= PCA_DEFAULT_DIM

\* the test of indexing.py line 126
PcaCacheHit(loaded, paths) ==
    /\ loaded.cached_paths = StrList(paths)
    /\ loaded.pca_emb # None
    /\ loaded.pca_emb.width <= PCA_DEFAULT_DIM

\* the job's thumbnail loop (jobs.py 34-51) writes or unlinks one thumbnail
ThumbWrite(p) ==
    /\ p \notin thumb_root
    /\ thumb_root' = thumb_root \cup {p}
    /\ UNCHANGED <<cache_file, pca_cache_file, pca_model_file, bpc, image_paths,
                   embeddings, pca_embeddings_np, built, runs, embed_calls, fit_calls,
                   embed_at_start, archive_at_start, prev>>

ThumbUnlink(p) ==
    /\ p \in thumb_root
    /\ thumb_root' = thumb_root \ {p}
    /\ UNCHANGED <<cache_file, pca_cache_file, pca_model_file, bpc, image_paths,
                   embeddings, pca_embeddings_np, built, runs, embed_calls, fit_calls,
                   embed_at_start, archive_at_start, prev>>

\* build_context lines 140-175: list the thumbnails, load the archive, decide
BuildStart ==
    /\ bpc \in {"b_idle", "b_done", "b_failed"}
    /\ runs < MaxRuns
    /\ runs' = runs + 1
    /\ embed_at_start' = embed_calls
    /\ archive_at_start' = cache_file
    /\ prev' = IF bpc = "b_done"
               THEN [kind |-> "run", paths |-> image_paths, archive |-> cache_file]
               ELSE NoRun
    /\ LET paths == collect_image_paths(thumb_root) IN
          /\ image_paths' = paths
          /\ IF LoadRaises(cache_file)
             THEN /\ embeddings' = None
                  /\ bpc' = "b_failed"
             ELSE IF EmbeddingCacheHit(load_cache(cache_file), paths)
             THEN /\ embeddings' = load_cache(cache_file).embeddings
                  /\ bpc' = "b_pca"
             ELSE /\ embeddings' = None
                  /\ bpc' = "b_embed"
    /\ pca_embeddings_np' = None
    /\ built' = None
    /\ UNCHANGED <<thumb_root, cache_file, pca_cache_file, pca_model_file, embed_calls,
                   fit_calls>>

\* line 177: embeddings = clip_service.embed_images(image_paths)
BuildEmbed ==
    /\ bpc = "b_embed"
    /\ embed_calls' = embed_calls + 1
    /\ IF Len(image_paths) = 0
       THEN /\ bpc' = "b_failed"
            /\ UNCHANGED embeddings
       ELSE /\ embeddings' = embed_images(image_paths, embed_calls + 1)
            /\ bpc' = "b_save"
    /\ UNCHANGED <<thumb_root, cache_file, pca_cache_file, pca_model_file, image_paths,
                   pca_embeddings_np, built, runs, fit_calls, embed_at_start, archive_at_start, prev>>

\* line 178: indexing.save_cache(cfg.cache_file, embeddings, image_paths)
BuildSave ==
    /\ bpc = "b_save"
    /\ cache_file' = save_cache(embeddings, image_paths)
    /\ bpc' = "b_pca"
    /\ UNCHANGED <<thumb_root, pca_cache_file, pca_model_file, image_paths, embeddings,
                   pca_embeddings_np, built, runs, embed_calls, fit_calls, embed_at_start, archive_at_start,
                   prev>>

\* line 180: indexing.get_or_build_pca_embeddings(cfg, embeddings, image_paths)
BuildPca ==
    /\ bpc = "b_pca"
    /\ LET loaded == load_pca_cache(pca_cache_file) IN
       IF PcaCacheHit(loaded, image_paths)
       THEN /\ pca_embeddings_np' = loaded.pca_emb
            /\ bpc' = "b_finish"
            /\ UNCHANGED <<pca_cache_file, pca_model_file, fit_calls>>
       ELSE IF PcaWidth(embeddings) < 1
       THEN /\ bpc' = "b_failed"
            /\ UNCHANGED <<pca_cache_file, pca_model_file, fit_calls, pca_embeddings_np>>
       ELSE LET model == PcaFit(embeddings, fit_calls + 1)
                X_pca == PcaTransform(model, embeddings)
            IN /\ fit_calls' = fit_calls + 1
               /\ pca_model_file' = model
               /\ pca_cache_file' = save_pca_cache(X_pca, image_paths)
               /\ pca_embeddings_np' = X_pca
               /\ bpc' = "b_finish"
    /\ UNCHANGED <<thumb_root, cache_file, image_paths, embeddings, built, runs,
                   embed_calls, embed_at_start, archive_at_start, prev>>

\* indexing.extract_metadata: one record per path
extract_metadata(p) == [filename |-> p.name]

\* indexing.build_index: every row of the float32 matrix is added to an index
\* of the matrix's column count
build_index(emb) == [d |-> AsFloat32(emb).width, ntotal |-> NumRows(AsFloat32(emb))]

\* lines 150-155 and 181-204: one metadata record per path, load the
\* projector, build the index, return the context
BuildFinish ==
    /\ bpc = "b_finish"
    /\ IF pca_model_file = NoFile
       THEN /\ bpc' = "b_failed"
            /\ UNCHANGED built
       ELSE /\ built' = [image_paths |-> image_paths,
                         metadata |-> [i \in 1..Len(image_paths) |->
                                          extract_metadata(image_paths[i])],
                         embeddings |-> embeddings,
                         pca_embeddings_np |-> pca_embeddings_np,
                         pca_model |-> pca_model_file,
                         faiss_index |-> build_index(embeddings),
                         ntotal |-> build_index(embeddings).ntotal]
            /\ bpc' = "b_done"
    /\ UNCHANGED <<thumb_root, cache_file, pca_cache_file, pca_model_file, image_paths,
                   embeddings, pca_embeddings_np, runs, embed_calls, fit_calls,
                   embed_at_start, archive_at_start, prev>>

\* the process dies inside np.savez_compressed (indexing.py 37-41), which writes
\* straight to cfg.cache_file: the file is left as far as it was written and
\* the locals are gone
CrashInSave ==
    /\ bpc = "b_save"
    /\ cache_file' = PartialFile
    /\ bpc' = "b_idle"
    /\ image_paths' = <<>>
    /\ embeddings' = None
    /\ pca_embeddings_np' = None
    /\ built' = None
    /\ UNCHANGED <<thumb_root, pca_cache_file, pca_model_file, runs, embed_calls, fit_calls,
                   embed_at_start, archive_at_start, prev>>

NextBuild ==
    \/ \E p \in Paths : ThumbWrite(p) /\ UNCHANGED <<cacheVars, histVars, jobVars, serveVars, searchVars>>
    \/ \E p \in Paths : ThumbUnlink(p) /\ UNCHANGED <<cacheVars, histVars, jobVars, serveVars, searchVars>>
    \/ BuildStart /\ UNCHANGED <<cacheVars, histVars, jobVars, serveVars, searchVars>>
    \/ BuildEmbed /\ UNCHANGED <<cacheVars, histVars, jobVars, serveVars, searchVars>>
    \/ BuildSave /\ UNCHANGED <<cacheVars, histVars, jobVars, serveVars, searchVars>>
    \/ BuildPca /\ UNCHANGED <<cacheVars, histVars, jobVars, serveVars, searchVars>>
    \/ BuildFinish /\ UNCHANGED <<cacheVars, histVars, jobVars, serveVars, searchVars>>

SpecBuild == Init /\ [][NextBuild]_vars

\* build_context runs with a process that may die while it saves the archive
NextCrash ==
    \/ NextBuild
    \/ CrashInSave /\ UNCHANGED <<cacheVars, histVars, jobVars, serveVars, searchVars>>

SpecCrash == Init /\ [][NextCrash]_vars

\* --------------------------------------------------- process_uploaded_dataset
\* the one dataset this specification follows
JobDataset == 1

buildRest == <<cache_file, pca_cache_file, pca_model_file, bpc, image_paths, embeddings,
               pca_embeddings_np, built, runs, embed_calls, fit_calls, embed_at_start, archive_at_start,
               prev>>

active_stages == {"queued", "thumbnails", "indexing", "embeddings", "atlas"}

\* the parameters build_context declares (context.py line 140)
BuildContextParams == {"cfg"}

\* a call binds when every keyword it passes is a declared parameter; Python
\* raises TypeError otherwise, before the body runs
CallBinds(params, keywords) == keywords \subseteq params

\* the response of an upload-zip or resume-processing request
Answer(op, code) == answers' = Append(answers, [op |-> op, code |-> code])

\* the route handlers running, on the threads of the web server
Handling == {t \in Threads : handler[t] # NoHandler}

\* jobs.submit_processing (jobs.py 117-123) with JobManager.submit
\* (job_manager.py 23-25): the task waits in the executor's queue
submit_processing ==
    /\ submissions < MaxJobs
    /\ submissions' = submissions + 1
    /\ status' = "processing"
    /\ meta_error' = NoError
    /\ job_state' = [job_state EXCEPT !.stage = "queued", !.progress = Frac(0, 1)]
    /\ pending' = pending + 1

\* upload_zip, lines 94-103, for a zip with n images of which the set r can be
\* decoded: dataset.json is read and its status tested
UploadCheck(t, n, r) ==
    /\ handler[t] = NoHandler
    /\ \A u \in Threads : u < t => handler[u] # NoHandler
    /\ Len(answers) + Cardinality(Handling) < MaxRequests
    /\ IF status # "created"
       THEN /\ Answer("upload", 409)
            /\ UNCHANGED handler
       ELSE /\ handler' = [handler EXCEPT ![t] = [op |-> "upload", at |-> "checked",
                                                  n |-> n, r |-> r, status |-> status,
                                                  error |-> meta_error,
                                                  cached |-> FALSE]]
            /\ UNCHANGED answers
    /\ UNCHANGED <<status, meta_error, job_state, jpc, originals, readable, idx, processed,
                   skipped, exc, submissions, refused, pending, collected, unhandled>>

\* upload_zip, lines 105-125: the files are extracted over cfg.original_root,
\* status uploaded is written and the job submitted
UploadZip(t) ==
    /\ handler[t].op = "upload"
    /\ originals' = originals \cup (1..handler[t].n)
    /\ readable' = (readable \ (1..handler[t].n)) \cup handler[t].r
    /\ submit_processing
    /\ handler' = [handler EXCEPT ![t] = NoHandler]
    /\ Answer("upload", 202)
    /\ UNCHANGED <<jpc, idx, processed, skipped, exc, refused, collected, unhandled>>

\* resume_processing, lines 128-139: dataset.json and the embedding archive
\* are looked at
ResumeRead(t) ==
    /\ handler[t] = NoHandler
    /\ \A u \in Threads : u < t => handler[u] # NoHandler
    /\ Len(answers) + Cardinality(Handling) < MaxRequests
    /\ handler' = [handler EXCEPT ![t] = [op |-> "resume", at |-> "read", n |-> 0, r |-> {},
                                          status |-> status, error |-> meta_error,
                                          cached |-> (cache_file # NoFile)]]
    /\ UNCHANGED <<status, meta_error, job_state, jpc, originals, readable, idx, processed,
                   skipped, exc, submissions, refused, pending, collected, answers, unhandled>>

\* resume_processing, lines 141-151: the Job State is read and the three
\* refusals decided
ResumeCheck(t) ==
    /\ handler[t].op = "resume"
    /\ handler[t].at = "read"
    /\ IF \/ job_state.stage \in active_stages
          \/ handler[t].status = "created"
          \/ (handler[t].status = "ready" /\ handler[t].cached)
       THEN /\ Answer("resume", 409)
            /\ handler' = [handler EXCEPT ![t] = NoHandler]
       ELSE /\ handler' = [handler EXCEPT ![t].at = "checked"]
            /\ UNCHANGED answers
    /\ UNCHANGED <<status, meta_error, job_state, jpc, originals, readable, idx, processed,
                   skipped, exc, submissions, refused, pending, collected, unhandled>>

\* resume_processing, lines 153-154
ResumeProcessing(t) ==
    /\ handler[t].op = "resume"
    /\ handler[t].at = "checked"
    /\ submit_processing
    /\ handler' = [handler EXCEPT ![t] = NoHandler]
    /\ Answer("resume", 202)
    /\ UNCHANGED <<jpc, originals, readable, idx, processed, skipped, exc, refused,
                   collected, unhandled>>

\* dataset_metadata_source, POST, lines 49-81: dataset.json is read into meta
\* and the source accepted
MetadataRead(t) ==
    /\ handler[t] = NoHandler
    /\ \A u \in Threads : u < t => handler[u] # NoHandler
    /\ Len(answers) + Cardinality(Handling) < MaxRequests
    /\ handler' = [handler EXCEPT ![t] = [op |-> "metadata", at |-> "read", n |-> 0,
                                          r |-> {}, status |-> status,
                                          error |-> meta_error, cached |-> FALSE]]
    /\ UNCHANGED <<status, meta_error, job_state, jpc, originals, readable, idx, processed,
                   skipped, exc, submissions, refused, pending, collected, answers, unhandled>>

\* dataset_metadata_source, lines 83-91: meta, with the new metadata_source,
\* is written over dataset.json and the cached context dropped
MetadataWrite(t) ==
    /\ handler[t].op = "metadata"
    /\ status' = handler[t].status
    /\ meta_error' = handler[t].error
    /\ Invalidate(t, JobDataset)
    /\ handler' = [handler EXCEPT ![t] = NoHandler]
    /\ Answer("metadata", 200)
    /\ UNCHANGED <<job_state, jpc, originals, readable, idx, processed, skipped, exc,
                   submissions, refused, pending, collected, unhandled>>

\* the handler of lines 104-114 is entered with str(exc)
Raise(msg) ==
    /\ exc' = msg
    /\ jpc' = "j_except"

\* the executor's one worker (config.py 25) is between two tasks
WorkerFree == jpc \in {"j_none", "j_done"}

\* line 21 raising: get_dataset_config is called before the try statement, so
\* the exception leaves process_uploaded_dataset and ends in the task's Future
JobConfigRaises ==
    /\ WorkerFree
    /\ pending > 0
    /\ pending' = pending - 1
    /\ jpc' = "j_done"
    /\ unhandled' = TRUE
    /\ UNCHANGED <<status, meta_error, job_state, originals, readable, idx, processed,
                   skipped, exc, submissions, refused, handler, collected, answers>>

\* lines 21-32, the configuration loaded
JobStart ==
    /\ WorkerFree
    /\ pending > 0
    /\ pending' = pending - 1
    /\ unhandled' = FALSE
    /\ collected' = originals
    /\ idx' = 0
    /\ processed' = 0
    /\ skipped' = 0
    /\ IF Cardinality(originals) = 0
       THEN Raise("No images found in uploaded dataset")
       ELSE /\ jpc' = "j_thumbs"
            /\ UNCHANGED exc
    /\ job_state' = [job_state EXCEPT !.stage = "thumbnails", !.progress = Frac(0, 1)]
    /\ UNCHANGED <<status, meta_error, originals, readable, submissions, refused, handler,
                   answers>>

\* the loop of lines 34-60 without the handler of lines 45-51: the first
\* original that cannot be decoded ends the run
JobThumbnail_Aborts ==
    /\ jpc = "j_thumbs"
    /\ idx < Cardinality(collected)
    /\ LET src == SortedPaths(collected)[idx + 1].name
       IN IF src \in readable
          THEN /\ thumb_root' = thumb_root \cup {src}
               /\ processed' = processed + 1
               /\ idx' = idx + 1
               /\ UNCHANGED <<jpc, exc>>
          ELSE /\ Raise("cannot identify image file")
               /\ UNCHANGED <<thumb_root, processed, idx>>
    /\ UNCHANGED <<status, meta_error, job_state, originals, readable, skipped, submissions,
                   refused, handler, pending, collected, answers, unhandled>>

\* one iteration of the loop of lines 34-60
JobThumbnail ==
    /\ jpc = "j_thumbs"
    /\ idx < Cardinality(collected)
    /\ LET src == SortedPaths(collected)[idx + 1].name
           ok == src \in readable
           p == IF ok THEN processed + 1 ELSE processed
           k == IF ok THEN skipped ELSE skipped + 1
       IN /\ thumb_root' = IF ok THEN thumb_root \cup {src} ELSE thumb_root \ {src}
          /\ processed' = p
          /\ skipped' = k
          /\ job_state' = IF idx % PROGRESS_EVERY = 0
                          THEN [job_state EXCEPT !.stage = "thumbnails",
                                                 !.progress = Frac(idx, Cardinality(collected)),
                                                 !.processed = p,
                                                 !.skipped = k]
                          ELSE job_state
    /\ idx' = idx + 1
    /\ UNCHANGED <<status, meta_error, jpc, originals, readable, exc, submissions, refused,
                   handler, pending, collected, answers, unhandled>>

\* lines 62-75 without the test of line 62
JobIndexing_NoTest ==
    /\ jpc = "j_thumbs"
    /\ idx = Cardinality(collected)
    /\ job_state' = [job_state EXCEPT !.stage = "indexing", !.progress = Frac(0, 1)]
    /\ jpc' = "j_invalidate"
    /\ UNCHANGED <<status, meta_error, originals, readable, idx, processed, skipped, exc,
                   submissions, refused, handler, pending, collected, answers, unhandled>>

\* lines 62-75
JobIndexing ==
    /\ jpc = "j_thumbs"
    /\ idx = Cardinality(collected)
    /\ IF processed = 0
       THEN /\ Raise("No valid images found in uploaded dataset")
            /\ UNCHANGED job_state
       ELSE /\ job_state' = [job_state EXCEPT !.stage = "indexing", !.progress = Frac(0, 1)]
            /\ jpc' = "j_invalidate"
            /\ UNCHANGED exc
    /\ UNCHANGED <<status, meta_error, originals, readable, idx, processed, skipped,
                   submissions, refused, handler, pending, collected, answers, unhandled>>

\* lines 77-80: the job's only call of invalidate, made before the build
JobInvalidate ==
    /\ jpc = "j_invalidate"
    /\ Invalidate(Worker, JobDataset)
    /\ job_state' = [job_state EXCEPT !.stage = "embeddings", !.progress = Frac(0, 1),
                                      !.processed = 0]
    /\ jpc' = "j_build"
    /\ UNCHANGED <<status, meta_error, originals, readable, idx, processed, skipped, exc,
                   submissions, refused, handler, pending, collected, answers, unhandled>>

\* lines 82-94: context.build_context(cfg, progress_cb=_embedding_progress);
\* _embedding_progress runs only if build_context calls it
JobBuildContext ==
    /\ jpc = "j_build"
    /\ IF CallBinds(BuildContextParams, {"progress_cb"})
       THEN /\ job_state' = [job_state EXCEPT !.stage = "atlas", !.progress = Frac(0, 1)]
            /\ jpc' = "j_atlas"
            /\ UNCHANGED exc
       ELSE /\ Raise("build_context() got an unexpected keyword argument 'progress_cb'")
            /\ UNCHANGED job_state
    /\ UNCHANGED <<status, meta_error, originals, readable, idx, processed, skipped,
                   submissions, refused, handler, pending, collected, answers, unhandled>>

\* lines 95-102, which follow the return of that build_context call
JobReady ==
    /\ jpc = "j_atlas"
    /\ status' = "ready"
    /\ meta_error' = NoError
    /\ job_state' = [job_state EXCEPT !.stage = "ready", !.progress = Frac(1, 1)]
    /\ jpc' = "j_done"
    /\ UNCHANGED <<originals, readable, idx, processed, skipped, exc, submissions, refused,
                   handler, pending, collected, answers, unhandled>>

\* lines 104-114
JobExcept ==
    /\ jpc = "j_except"
    /\ status' = "error"
    /\ meta_error' = exc
    /\ job_state' = [job_state EXCEPT !.stage = "error", !.error = exc]
    /\ jpc' = "j_done"
    /\ UNCHANGED <<originals, readable, idx, processed, skipped, exc, submissions, refused,
                   handler, pending, collected, answers, unhandled>>

\* _get_context (routes_dataset_scoped.py 28-44): 409 unless the persisted
\* status is ready, else the first step of context_cache.get
GetContext(t) ==
    /\ pc[t] = "idle"
    /\ IF status # "ready"
       THEN /\ refused' = (refused \/ jpc = "j_done")
            /\ UNCHANGED <<cacheVars, histVars>>
       ELSE /\ GetCheck1(t, JobDataset)
            /\ UNCHANGED refused
    /\ UNCHANGED <<status, meta_error, job_state, jpc, originals, readable, idx, processed,
                   skipped, exc, submissions, handler, pending, collected, answers,
                   unhandled>>

\* the steps of the executor's worker thread
WorkerStep ==
    \/ JobConfigRaises /\ UNCHANGED <<cacheVars, histVars, buildVars, serveVars, searchVars>>
    \/ JobStart /\ UNCHANGED <<cacheVars, histVars, buildVars, serveVars, searchVars>>
    \/ JobThumbnail /\ UNCHANGED <<cacheVars, histVars, buildRest, serveVars, searchVars>>
    \/ JobIndexing /\ UNCHANGED <<cacheVars, histVars, buildVars, serveVars, searchVars>>
    \/ JobInvalidate /\ UNCHANGED <<buildVars, serveVars, searchVars>>
    \/ JobBuildContext /\ UNCHANGED <<cacheVars, histVars, buildVars, serveVars, searchVars>>
    \/ JobExcept /\ UNCHANGED <<cacheVars, histVars, buildVars, serveVars, searchVars>>

\* JobReady is left out: no behaviour reaches position j_atlas, and with no
\* dataset ever ready no request gets past the status test of _get_context
NextJob ==
    \/ \E t \in Threads : \E n \in 1..MaxZip : \E r \in SUBSET (1..n) :
           UploadCheck(t, n, r) /\ UNCHANGED <<cacheVars, histVars, buildVars, serveVars, searchVars>>
    \/ \E t \in Threads : UploadZip(t) /\ UNCHANGED <<cacheVars, histVars, buildVars, serveVars, searchVars>>
    \/ \E t \in Threads : ResumeRead(t) /\ UNCHANGED <<cacheVars, histVars, buildVars, serveVars, searchVars>>
    \/ \E t \in Threads : ResumeCheck(t) /\ UNCHANGED <<cacheVars, histVars, buildVars, serveVars, searchVars>>
    \/ \E t \in Threads : ResumeProcessing(t) /\ UNCHANGED <<cacheVars, histVars, buildVars, serveVars, searchVars>>
    \/ \E t \in Threads : MetadataRead(t) /\ UNCHANGED <<cacheVars, histVars, buildVars, serveVars, searchVars>>
    \/ \E t \in Threads : MetadataWrite(t) /\ UNCHANGED <<buildVars, serveVars, searchVars>>
    \/ WorkerStep
    \/ \E t \in Threads : GetContext(t) /\ UNCHANGED <<buildVars, serveVars, searchVars>>

SpecJob == Init /\ [][NextJob]_vars

\* the worker thread of the ThreadPoolExecutor takes a queued task and runs
\* it to its end whenever it can
SpecJobFair == SpecJob /\ WF_vars(WorkerStep)

\* ------------------------------------------------------------------ search
\* vectors have one coordinate here; a coordinate is a small natural number
Vec == {<<c>> : c \in 0..MaxCoord}

Max2(a, b) == IF a >= b THEN a ELSE b

\* np.sum(diff * diff, axis=1) for one row
RECURSIVE SumSq(_, _, _)
SumSq(v, q, j) ==
    IF j = 0 THEN 0 ELSE (v[j] - q[j]) * (v[j] - q[j]) + SumSq(v, q, j - 1)

SqDists(vectors, q) == [i \in 1..Len(vectors) |-> SumSq(vectors[i], q, Len(q))]

\* np.argsort(dists): positions in ascending order of distance. The default
\* kind is quicksort, which is not stable: positions of equal distance come in
\* whatever order the build's sort leaves them in
ArgSort(dists) ==
    {order \in [1..Len(dists) -> 1..Len(dists)] :
        /\ \A i, j \in 1..Len(dists) : i # j => order[i] # order[j]
        /\ \A i, j \in 1..Len(dists) : i < j => dists[order[i]] <= dists[order[j]]}

\* order[:k] for k >= 0
Take(order, k) == SubSeq(order, 1, Min2(k, Len(order)))

\* mutant: the index returns the k farthest rows
IndexSearch_Farthest(vectors, q, k) ==
    LET dists == SqDists(vectors, q) IN
    { [I |-> [i \in 1..Len(part) |-> part[i] - 1],
       D |-> [i \in 1..Len(part) |-> dists[part[i]]]] :
      part \in {Take(order, k) :
                  order \in {o \in [1..Len(dists) -> 1..Len(dists)] :
                      /\ \A i, j \in 1..Len(dists) : i # j => o[i] # o[j]
                      /\ \A i, j \in 1..Len(dists) : i < j => dists[o[i]] >= dists[o[j]]}} }

\* NumpyIndex.search; faiss.IndexFlatL2.search returns the k rows nearest by
\* the same distance, rows of equal distance in an order it does not specify.
\* Row ids count from 0
IndexSearch(vectors, q, k) ==
    LET dists == SqDists(vectors, q) IN
    { [I |-> [i \in 1..Len(part) |-> part[i] - 1],
       D |-> [i \in 1..Len(part) |-> dists[part[i]]]] :
      part \in {Take(order, k) : order \in ArgSort(dists)} }

\* k = max(1, min(k, m))
Clamp(k, m) == Max2(1, Min2(k, m))

IdList(items) == [kind |-> "list", items |-> items]

\* _search_with_ids(ctx, query_vec, k, image_ids): the lists of results it can
\* return
search_with_ids(vectors, q, k, image_ids) ==
    IF image_ids # None /\ image_ids.items # <<>>
    THEN LET valid_ids == SelectSeq(image_ids.items,
                                    LAMBDA i : 0 <= i /\ i < Len(vectors))
             subset == [j \in 1..Len(valid_ids) |-> vectors[valid_ids[j] + 1]]
             dists == SqDists(subset, q)
         IN IF valid_ids = <<>>
            THEN {<<>>}
            ELSE { [j \in 1..Len(part) |->
                       [id |-> valid_ids[part[j]], distance |-> dists[part[j]]]] :
                   part \in {Take(order, Clamp(k, Len(valid_ids))) :
                               order \in ArgSort(dists)} }
    ELSE { [j \in 1..Len(r.I) |-> [id |-> r.I[j], distance |-> r.D[j]]] :
           r \in IndexSearch(vectors, q, Clamp(k, Len(vectors))) }

\* the values of k and of image_ids a caller passes
Ks == 0..(NumVectors + 1)

IdValues == (-1)..NumVectors

IdLists == UNION {[1..n -> IdValues] : n \in 0..MaxIds}

\* an index over NumVectors rows and a query; one unrestricted search and one
\* subset search are made of it
InitSearching ==
    /\ InitCache /\ InitBuild /\ InitJob /\ InitServe
    /\ index_vectors \in [1..NumVectors -> Vec]
    /\ query_vec \in Vec
    /\ full_search = None
    /\ subset_search = None
    /\ image_search = None
    /\ text_layout = None
    /\ embed_run = None

\* _search_with_ids(ctx, q, k, None)
SearchFull(k) ==
    /\ full_search = None
    /\ \E results \in search_with_ids(index_vectors, query_vec, k, None) :
           full_search' = [kind |-> "search", k |-> k, results |-> results]
    /\ UNCHANGED <<index_vectors, query_vec, subset_search, image_search, text_layout,
                   embed_run>>

\* _search_with_ids(ctx, q, k, image_ids) for a list of ids
SearchSubset(k, ids) ==
    /\ subset_search = None
    /\ \E results \in search_with_ids(index_vectors, query_vec, k, IdList(ids)) :
           subset_search' = [kind |-> "search", k |-> k, image_ids |-> ids,
                             results |-> results]
    /\ UNCHANGED <<index_vectors, query_vec, full_search, image_search, text_layout,
                   embed_run>>

NextSearch ==
    \/ \E k \in Ks : SearchFull(k) /\ UNCHANGED <<cacheVars, histVars, buildVars, jobVars, serveVars>>
    \/ \E k \in Ks, ids \in IdLists :
           SearchSubset(k, ids) /\ UNCHANGED <<cacheVars, histVars, buildVars, jobVars, serveVars>>

SpecSearch == InitSearching /\ [][NextSearch]_vars

\* ------------------------------------------------- dataset-scoped requests
\* JSON values of a request body
JNull == [t |-> "null"]
\* a member the body does not have
JAbsent == [t |-> "absent"]
JInt(i) == [t |-> "int", v |-> i]
\* a string: its text without surrounding blanks, and whether blanks surround it
JStr(text, padded) == [t |-> "str", v |-> text, pad |-> padded]
JList(items) == [t |-> "list", v |-> items]

\* t.strip()
Strip(x) == [x EXCEPT !.pad = FALSE]

IsBlank(x) == x.v = ""

\* bool(x) is False
Falsy(x) ==
    \/ x = JNull \/ x = JAbsent
    \/ x.t = "int" /\ x.v = 0
    \/ x.t = "str" /\ x.v = "" /\ ~x.pad
    \/ x.t = "list" /\ x.v = <<>>

\* a filtered copy of a list, in order
RECURSIVE SelectList(_, _)
SelectList(q, keep) ==
    IF q = <<>> THEN <<>>
    ELSE (IF Head(q) \in keep THEN <<Head(q)>> ELSE <<>>) \o SelectList(Tail(q), keep)

Range(q) == {q[i] : i \in 1..Len(q)}

\* texts = [t.strip() for t in texts if t.strip()]  (line 1056)
CleanTexts(texts) ==
    LET stripped == [i \in 1..Len(texts) |-> Strip(texts[i])]
    IN SelectList(stripped, {x \in Range(stripped) : ~IsBlank(x)})

\* the JSON object "params" is the sequence of its <<name, value>> members;
\* json.dumps(..., sort_keys=True) writes them in the order of their names, so
\* the encoding depends on the set of members only
SortKeys(params) == Range(params)

\* indexing.umap_cache_key: the sha256 digest of the canonical encoding, taken
\* as one-to-one on the encodings
umap_cache_key(image_ids, texts, params, version) ==
    [image_ids |-> image_ids, texts |-> texts, params |-> SortKeys(params), v |-> version]

\* dictionaries as sets of items
DictHas(dict, k) == \E e \in dict : e.k = k

DictGet(dict, k) == (CHOOSE e \in dict : e.k = k).v

DictPut(dict, k, val) == {e \in dict : e.k # k} \cup {[k |-> k, v |-> val]}

\* context.load_umap_cache: the pickled dict, or {} when the file is missing
\* or cannot be unpickled
load_umap_cache(file) ==
    IF file = NoFile \/ file = PartialFile THEN EmptyDict ELSE file.dict

\* the images of the dataset the requests are about: len(ctx.pca_embeddings_np)
ImageIds == 0..(NumImages - 1)

AllIds == [i \in 1..NumImages |-> i - 1]

\* request bodies of POST /umap
P0 == [query |-> JAbsent, top_k |-> JAbsent,
       image_ids |-> JList(<<JInt(0), JInt(1)>>), texts |-> JList(<<>>), params |-> <<>>]

UmapPayloads ==
    { P0,
      [P0 EXCEPT !.image_ids = JList(<<JInt(1), JInt(0)>>)],
      [P0 EXCEPT !.image_ids = JList(<<JInt(0)>>)],
      [P0 EXCEPT !.image_ids = JNull],
      [P0 EXCEPT !.texts = JList(<<JStr("a", FALSE)>>)],
      [P0 EXCEPT !.texts = JList(<<JStr("a", TRUE)>>)],
      [P0 EXCEPT !.params = << <<"seed", JInt(1)>> >>],
      [P0 EXCEPT !.params = << <<"seed", JInt(1)>>, <<"spread", JInt(1)>> >>],
      [P0 EXCEPT !.params = << <<"spread", JInt(1)>>, <<"seed", JInt(1)>> >>],
      [P0 EXCEPT !.params = << <<"seed", JStr("x", FALSE)>> >>],
      [P0 EXCEPT !.image_ids = JList(<<JInt(NumImages)>>)],
      [P0 EXCEPT !.image_ids = JList(<<JStr("x", FALSE)>>)],
      [P0 EXCEPT !.image_ids = JInt(0)],
      [P0 EXCEPT !.texts = JInt(1)],
      [P0 EXCEPT !.image_ids = JList(<<>>)] }

\* request bodies of POST /search
Q0 == [query |-> JStr("a", FALSE), top_k |-> JInt(1),
       image_ids |-> JAbsent, texts |-> JAbsent, params |-> <<>>]

SearchPayloads ==
    { Q0,
      [Q0 EXCEPT !.top_k = JAbsent],
      [Q0 EXCEPT !.image_ids = JList(<<JInt(1), JStr("x", FALSE)>>)],
      [Q0 EXCEPT !.image_ids = JList(<<JStr("x", FALSE)>>)],
      [Q0 EXCEPT !.image_ids = JList(<<JInt(NumImages)>>)],
      [Q0 EXCEPT !.image_ids = JList(<<JStr("1", FALSE), JInt(0)>>), !.top_k = JInt(2)],
      [Q0 EXCEPT !.top_k = JStr("x", FALSE)],
      [Q0 EXCEPT !.query = JStr("", TRUE)],
      [Q0 EXCEPT !.query = JAbsent] }

\* int(val): the texts that are decimal numbers, among those used here
IsDecimal(text) == text \in {"0", "1"}

DecimalValue(text) == IF text = "0" THEN 0 ELSE 1

IntRaises(x) ==
    \/ x = JNull
    \/ x.t = "list"
    \/ x.t = "str" /\ ~IsDecimal(x.v)

IntOf(x) == IF x.t = "int" THEN x.v ELSE DecimalValue(x.v)

\* _parse_image_ids for a body whose image_ids is missing, null, a list or a
\* number: the members int() accepts, or None when there is none
parse_image_ids(raw_ids) ==
    IF raw_ids = JNull \/ raw_ids = JAbsent THEN None
    ELSE IF raw_ids.t = "list"
    THEN LET accepted == SelectList(raw_ids.v, {x \in Range(raw_ids.v) : ~IntRaises(x)})
             ids == [i \in 1..Len(accepted) |-> IntOf(accepted[i])]
         IN IF ids = <<>> THEN None ELSE IdList(ids)
    ELSE None

\* the rows of ctx.embeddings of the served dataset, and
\* clip_service.embed_text([query]) of every query made here
ServedVectors == [i \in 1..NumImages |-> <<i - 1>>]

embed_text(query) == <<0>>

IsListOf(x, type) == x.t = "list" /\ \A i \in 1..Len(x.v) : x.v[i].t = type

Ints(x) == [i \in 1..Len(x.v) |-> x.v[i].v]

\* int(params.get(name, default)) / float(...) raise on a string that is no number
ParamsRaise(params) == \E i \in 1..Len(params) : params[i][2].t = "str"

\* the response sent
Reply(r, code, body, ran) ==
    [id |-> r.id, seen |-> r.seen, op |-> r.op, input |-> r.input, n |-> r.n, key |-> r.key,
     code |-> code, body |-> body, ran |-> ran, wrote |-> r.wrote]

Send(t, code, body, ran) ==
    /\ replies' = Append(replies, Reply(req[t], code, body, ran))
    /\ req' = [req EXCEPT ![t] = NoReq]

\* the context _get_context returned
Got(t, c) == [req EXCEPT ![t].stage = "have_ctx", ![t].n = c.n]

\* _get_context (routes_dataset_scoped.py 28-44) as the first statement of a
\* handler: the status test, then the first step of context_cache.get
BeginRequest(t, op, input) ==
    /\ req[t] = NoReq
    /\ Len(replies) + Cardinality({u \in Threads : req[u] # NoReq}) < MaxRequests
    /\ status = "ready"
    /\ GetCheck1(t, JobDataset)
    /\ LET r == [NoReq EXCEPT !.op = op, !.stage = "getting", !.id = calls + 1,
                              !.seen = Len(replies), !.input = input]
       IN req' = IF Has(cache, JobDataset)
                 THEN [req EXCEPT ![t] = [r EXCEPT !.stage = "have_ctx",
                                                   !.n = CacheGet(cache, JobDataset).n]]
                 ELSE [req EXCEPT ![t] = r]
    /\ UNCHANGED <<umap_mem, umap_cache_file, umap_writers, layout_runs, replies>>

\* context_cache.get, continued for a request
ServeCheck2(t) ==
    /\ req[t].stage = "getting"
    /\ GetCheck2(t)
    /\ req' = IF Has(cache, JobDataset) THEN Got(t, CacheGet(cache, JobDataset)) ELSE req
    /\ UNCHANGED <<umap_mem, umap_cache_file, umap_writers, layout_runs, replies>>

\* the builder raised: the request is answered 500
ServeBuilderRaise(t) ==
    /\ req[t].stage = "getting"
    /\ BuilderRaise(t)
    /\ Send(t, 500, None, FALSE)
    /\ UNCHANGED <<umap_mem, umap_cache_file, umap_writers, layout_runs>>

\* build_context returned: its last step read the layout cache file
\* (context.py 193), and get inserts the context
ServeInsert(t) ==
    /\ req[t].stage = "getting"
    /\ GetInsert(t)
    /\ umap_mem' = [umap_mem EXCEPT ![ctx[t].n] = load_umap_cache(umap_cache_file)]
    /\ UNCHANGED <<req, umap_cache_file, umap_writers, layout_runs, replies>>

ServeEvict(t) ==
    /\ req[t].stage = "getting"
    /\ GetEvict(t)
    /\ req' = IF OverCapacity(cache) THEN req ELSE Got(t, ctx[t])
    /\ UNCHANGED <<umap_mem, umap_cache_file, umap_writers, layout_runs, replies>>

\* dataset_metadata_source (routes_datasets.py 87) drops the cached context
ServeInvalidate(t) ==
    /\ req[t] = NoReq
    /\ Invalidate(t, JobDataset)
    /\ UNCHANGED serveVars

\* get_umap, POST, lines 1049-1071: validation, key, lookup in ctx.umap_cache
UmapValidate(t) ==
    LET r == req[t]
        texts_raw == IF Falsy(r.input.texts) THEN JList(<<>>) ELSE r.input.texts
        ids_raw == r.input.image_ids
        texts == CleanTexts(texts_raw.v)
        image_ids == IF ids_raw = JNull THEN AllIds ELSE Ints(ids_raw)
        key == umap_cache_key(image_ids, texts, r.input.params, UMAP_CACHE_VERSION)
    IN
    /\ r.op = "umap" /\ r.stage = "have_ctx"
    /\ IF ~IsListOf(texts_raw, "str")
       THEN Send(t, 400, "'texts' must be a list of strings", FALSE)
       ELSE IF ids_raw # JNull /\ ~IsListOf(ids_raw, "int")
       THEN Send(t, 400, "'image_ids' must be a list of integers", FALSE)
       ELSE IF \E i \in Range(image_ids) : i \notin ImageIds
       THEN Send(t, 400, "One or more image_ids are out of range", FALSE)
       ELSE IF image_ids = <<>> /\ texts = <<>>
       THEN Send(t, 400, "No image_ids or texts provided", FALSE)
       ELSE IF DictHas(umap_mem[r.n], key)
       THEN /\ replies' = Append(replies, Reply([r EXCEPT !.key = key], 200,
                                                DictGet(umap_mem[r.n], key), FALSE))
            /\ req' = [req EXCEPT ![t] = NoReq]
       ELSE /\ req' = [req EXCEPT ![t].stage = "layout", ![t].key = key]
            /\ UNCHANGED replies
    /\ UNCHANGED <<umap_mem, umap_cache_file, umap_writers, layout_runs>>
    /\ UNCHANGED <<cacheVars, histVars>>

\* search, POST, lines 232-244
SearchHandle(t) ==
    LET r == req[t]
        top_k == IF r.input.top_k = JAbsent THEN JInt(TOP_K_DEFAULT) ELSE r.input.top_k
        query == IF Falsy(r.input.query) THEN JStr("", FALSE) ELSE Strip(r.input.query)
        image_ids == parse_image_ids(r.input.image_ids)
    IN
    /\ r.op = "search" /\ r.stage = "have_ctx"
    /\ IF IntRaises(top_k)
       THEN Send(t, 400, "'top_k' must be an integer", FALSE)
       ELSE IF IsBlank(query)
       THEN Send(t, 400, "Missing 'query'", FALSE)
       ELSE \E results \in search_with_ids(ServedVectors, embed_text(query),
                                           IntOf(top_k), image_ids) :
                Send(t, 200, results, TRUE)
    /\ UNCHANGED <<umap_mem, umap_cache_file, umap_writers, layout_runs>>
    /\ UNCHANGED <<cacheVars, histVars>>

\* lines 1078-1126 up to open("wb") of _save_umap_cache: the reducer is made
\* (int() and float() of the parameters), the layout is computed and stored in
\* ctx.umap_cache, and the cache file is opened for writing, which empties it
UmapLayout(t) ==
    LET r == req[t]
        response == [key |-> r.key, run |-> layout_runs + 1, by |-> UMAP_CACHE_VERSION]
    IN
    /\ r.op = "umap" /\ r.stage = "layout"
    /\ IF ParamsRaise(r.input.params)
       THEN /\ Send(t, 500, None, FALSE)
            /\ UNCHANGED <<umap_mem, umap_cache_file, umap_writers, layout_runs>>
       ELSE /\ layout_runs' = layout_runs + 1
            /\ umap_mem' = [umap_mem EXCEPT ![r.n] = DictPut(@, r.key, response)]
            /\ umap_cache_file' = PartialFile
            /\ umap_writers' = umap_writers \cup {t}
            /\ req' = [u \in Threads |->
                          IF u = t
                          THEN [r EXCEPT !.stage = "saving", !.body = response,
                                         !.raced = umap_writers # {}]
                          ELSE IF u \in umap_writers THEN [req[u] EXCEPT !.raced = TRUE]
                          ELSE req[u]]
            /\ UNCHANGED replies
    /\ UNCHANGED <<cacheVars, histVars>>

\* pickle.dump(cache, fh) ends (routes_dataset_scoped.py 103-104) and the
\* response is sent; when another thread was writing the same file during
\* this write the bytes of the two may be mixed
UmapSaved(t) ==
    LET r == req[t]
        whole == [kind |-> "pickle", dict |-> umap_mem[r.n]]
    IN
    /\ r.op \in {"umap", "umap_get"} /\ r.stage = "saving"
    /\ umap_cache_file' \in (IF r.raced THEN {whole, PartialFile} ELSE {whole})
    /\ umap_writers' = umap_writers \ {t}
    /\ replies' = Append(replies, Reply([r EXCEPT !.wrote = "yes"], 200, r.body, TRUE))
    /\ req' = [req EXCEPT ![t] = NoReq]
    /\ UNCHANGED <<umap_mem, layout_runs>>
    /\ UNCHANGED <<cacheVars, histVars>>

\* a dataset directory whose dataset.json says ready: its artifacts were
\* produced before this process started
InitReady ==
    /\ InitCache /\ InitBuild /\ InitServe /\ InitSearch
    /\ status = "ready"
    /\ meta_error = NoError
    /\ job_state = [stage |-> NoKey, progress |-> NoProgress, processed |-> NoCount,
                    skipped |-> NoCount, error |-> NoKey]
    /\ jpc = "j_none"
    /\ originals = 1..NumImages
    /\ readable = 1..NumImages
    /\ idx = 0
    /\ processed = 0
    /\ skipped = 0
    /\ exc = NoKey
    /\ submissions = 0
    /\ refused = FALSE
    /\ InitHandlers

NextServe ==
    \/ \E t \in Threads, p \in UmapPayloads :
           BeginRequest(t, "umap", p) /\ UNCHANGED <<buildVars, jobVars, searchVars>>
    \/ \E t \in Threads, p \in SearchPayloads :
           BeginRequest(t, "search", p) /\ UNCHANGED <<buildVars, jobVars, searchVars>>
    \/ \E t \in Threads : ServeCheck2(t) /\ UNCHANGED <<buildVars, jobVars, searchVars>>
    \/ \E t \in Threads : ServeBuilderRaise(t) /\ UNCHANGED <<buildVars, jobVars, searchVars>>
    \/ \E t \in Threads : ServeInsert(t) /\ UNCHANGED <<buildVars, jobVars, searchVars>>
    \/ \E t \in Threads : ServeEvict(t) /\ UNCHANGED <<buildVars, jobVars, searchVars>>
    \/ \E t \in Threads : ServeInvalidate(t) /\ UNCHANGED <<buildVars, jobVars, searchVars>>
    \/ \E t \in Threads : UmapValidate(t) /\ UNCHANGED <<buildVars, jobVars, searchVars>>
    \/ \E t \in Threads : SearchHandle(t) /\ UNCHANGED <<buildVars, jobVars, searchVars>>
    \/ \E t \in Threads : UmapLayout(t) /\ UNCHANGED <<buildVars, jobVars, searchVars>>
    \/ \E t \in Threads : UmapSaved(t) /\ UNCHANGED <<buildVars, jobVars, searchVars>>

SpecServe == InitReady /\ [][NextServe]_vars

\* --------------------------------------------- layout cache across versions
\* the query string of GET /umap: <<name, value>> pairs, every value a string
GetArgs ==
    { <<>>,
      << <<"seed", JStr("1", FALSE)>> >>,
      << <<"seed", JStr("x", FALSE)>> >> }

GetPayload(args) ==
    [query |-> JAbsent, top_k |-> JAbsent, image_ids |-> JAbsent, texts |-> JAbsent,
     params |-> args]

\* request bodies of POST /umap drawn when the cache file is looked at
LayoutPayloads == {P0, [P0 EXCEPT !.params = << <<"seed", JInt(1)>> >>]}

\* params.get(name, default) of request.args
HasArg(args, name) == \E i \in 1..Len(args) : args[i][1] = name

ArgOf(args, name) == args[CHOOSE i \in 1..Len(args) : args[i][1] = name][2]

\* int(params.get(name, default)); float(...) likewise, in tenths
ArgInt(args, name, default) ==
    IF HasArg(args, name) THEN DecimalValue(ArgOf(args, name).v) ELSE default

ArgTenths(args, name, default) ==
    IF HasArg(args, name) THEN 10 * DecimalValue(ArgOf(args, name).v) ELSE default

ArgsRaise(args) == \E i \in 1..Len(args) : ~IsDecimal(args[i][2].v)

\* mutant: the tuple key without the version
legacy_key_NoVersion(args, version) ==
    [v |-> 0,
     n_neighbors |-> ArgInt(args, "n_neighbors", 15),
     min_dist |-> ArgTenths(args, "min_dist", 1),
     n_components |-> ArgInt(args, "n_components", 2),
     seed |-> ArgInt(args, "seed", 42),
     spread |-> ArgTenths(args, "spread", 10)]

\* the tuple key of the legacy GET, lines 1133-1140
legacy_key(args, version) ==
    [v |-> version,
     n_neighbors |-> ArgInt(args, "n_neighbors", 15),
     min_dist |-> ArgTenths(args, "min_dist", 1),
     n_components |-> ArgInt(args, "n_components", 2),
     seed |-> ArgInt(args, "seed", 42),
     spread |-> ArgTenths(args, "spread", 10)]

\* the release before this one stored its layouts under the version before
PreviousVersion == UMAP_CACHE_VERSION - 1

\* umap_cache.pkl as the previous release left it: the layout of all images
\* with default parameters, under its POST key and under its GET key
OldEntry(key) ==
    [k |-> key, v |-> [key |-> key, run |-> 0, by |-> PreviousVersion]]

OldFile ==
    [kind |-> "pickle",
     dict |-> { OldEntry(umap_cache_key(AllIds, <<>>, <<>>, PreviousVersion)),
                OldEntry(legacy_key(<<>>, PreviousVersion)) }]

\* get_umap, GET, lines 1131-1143: the key and the lookup
UmapGetLookup(t) ==
    LET r == req[t]
        key == legacy_key(r.input.params, UMAP_CACHE_VERSION)
    IN
    /\ r.op = "umap_get" /\ r.stage = "have_ctx"
    /\ IF ArgsRaise(r.input.params)
       THEN Send(t, 500, None, FALSE)
       ELSE IF DictHas(umap_mem[r.n], key)
       THEN /\ replies' = Append(replies, Reply([r EXCEPT !.key = key], 200,
                                                DictGet(umap_mem[r.n], key), FALSE))
            /\ req' = [req EXCEPT ![t] = NoReq]
       ELSE /\ req' = [req EXCEPT ![t].stage = "layout", ![t].key = key]
            /\ UNCHANGED replies
    /\ UNCHANGED <<umap_mem, umap_cache_file, umap_writers, layout_runs>>
    /\ UNCHANGED <<cacheVars, histVars>>

\* lines 1145-1163 up to open("wb") of _save_umap_cache
UmapGetLayout(t) ==
    LET r == req[t]
        embedding == [key |-> r.key, run |-> layout_runs + 1, by |-> UMAP_CACHE_VERSION]
    IN
    /\ r.op = "umap_get" /\ r.stage = "layout"
    /\ layout_runs' = layout_runs + 1
    /\ umap_mem' = [umap_mem EXCEPT ![r.n] = DictPut(@, r.key, embedding)]
    /\ umap_cache_file' = PartialFile
    /\ umap_writers' = umap_writers \cup {t}
    /\ req' = [u \in Threads |->
                  IF u = t
                  THEN [r EXCEPT !.stage = "saving", !.body = embedding,
                                 !.raced = umap_writers # {}]
                  ELSE IF u \in umap_writers THEN [req[u] EXCEPT !.raced = TRUE]
                  ELSE req[u]]
    /\ UNCHANGED replies
    /\ UNCHANGED <<cacheVars, histVars>>

\* mutant: a failed write fails the request and the layout is forgotten
UmapOpenFails_Raises(t) ==
    LET r == req[t] IN
    /\ r.op \in {"umap", "umap_get"} /\ r.stage = "layout"
    /\ r.op = "umap" => ~ParamsRaise(r.input.params)
    /\ layout_runs' = layout_runs + 1
    /\ replies' = Append(replies, Reply([r EXCEPT !.wrote = "failed"], 500, None, TRUE))
    /\ req' = [req EXCEPT ![t] = NoReq]
    /\ UNCHANGED <<umap_mem, umap_cache_file, umap_writers>>
    /\ UNCHANGED <<cacheVars, histVars>>

\* the layout is computed and stored in ctx.umap_cache, and mkdir or
\* open("wb") of _save_umap_cache raises: the exception is logged (lines
\* 105-106), the file is as it was and the response is sent
UmapOpenFails(t) ==
    LET r == req[t]
        response == [key |-> r.key, run |-> layout_runs + 1, by |-> UMAP_CACHE_VERSION]
    IN
    /\ r.op \in {"umap", "umap_get"} /\ r.stage = "layout"
    /\ r.op = "umap" => ~ParamsRaise(r.input.params)
    /\ layout_runs' = layout_runs + 1
    /\ umap_mem' = [umap_mem EXCEPT ![r.n] = DictPut(@, r.key, response)]
    /\ replies' = Append(replies, Reply([r EXCEPT !.wrote = "failed"], 200, response, TRUE))
    /\ req' = [req EXCEPT ![t] = NoReq]
    /\ UNCHANGED <<umap_cache_file, umap_writers>>
    /\ UNCHANGED <<cacheVars, histVars>>

\* pickle.dump raises after the file was opened: the exception is logged, the
\* file is left incomplete and the response is sent
UmapDumpFails(t) ==
    LET r == req[t] IN
    /\ r.op \in {"umap", "umap_get"} /\ r.stage = "saving"
    /\ umap_cache_file' = PartialFile
    /\ umap_writers' = umap_writers \ {t}
    /\ replies' = Append(replies, Reply([r EXCEPT !.wrote = "failed"], 200, r.body, TRUE))
    /\ req' = [req EXCEPT ![t] = NoReq]
    /\ UNCHANGED <<umap_mem, layout_runs>>
    /\ UNCHANGED <<cacheVars, histVars>>

\* a ready dataset whose cache directory holds no layout cache file, or the
\* one the previous release wrote
InitLayout ==
    /\ InitCache /\ InitBuild /\ InitSearch
    /\ status = "ready"
    /\ meta_error = NoError
    /\ job_state = [stage |-> NoKey, progress |-> NoProgress, processed |-> NoCount,
                    skipped |-> NoCount, error |-> NoKey]
    /\ jpc = "j_none"
    /\ originals = 1..NumImages
    /\ readable = 1..NumImages
    /\ idx = 0
    /\ processed = 0
    /\ skipped = 0
    /\ exc = NoKey
    /\ submissions = 0
    /\ refused = FALSE
    /\ InitHandlers
    /\ req = [t \in Threads |-> NoReq]
    /\ umap_mem = [n \in CtxIds |-> EmptyDict]
    /\ umap_cache_file \in {NoFile, OldFile}
    /\ umap_writers = {}
    /\ layout_runs = 0
    /\ replies = <<>>

\* no thread is serving a request or inside get
Quiet == \A u \in Threads : req[u] = NoReq /\ pc[u] = "idle"

\* a new request goes to the lowest-numbered free thread; the cached context is
\* dropped between requests (an invalidation in the middle of one is followed
\* in SpecServe), so that a later request builds a context from the cache file
\* the earlier ones left
NextLayout ==
    \/ \E t \in Threads, p \in LayoutPayloads :
           FirstIdle(t) /\ BeginRequest(t, "umap", p) /\ UNCHANGED <<buildVars, jobVars, searchVars>>
    \/ \E t \in Threads, a \in GetArgs :
           FirstIdle(t) /\ BeginRequest(t, "umap_get", GetPayload(a)) /\ UNCHANGED <<buildVars, jobVars, searchVars>>
    \/ \E t \in Threads : ServeCheck2(t) /\ UNCHANGED <<buildVars, jobVars, searchVars>>
    \/ \E t \in Threads : ServeBuilderRaise(t) /\ UNCHANGED <<buildVars, jobVars, searchVars>>
    \/ \E t \in Threads : ServeInsert(t) /\ UNCHANGED <<buildVars, jobVars, searchVars>>
    \/ \E t \in Threads : ServeEvict(t) /\ UNCHANGED <<buildVars, jobVars, searchVars>>
    \/ \E t \in Threads :
           Quiet /\ Has(cache, JobDataset) /\ FirstIdle(t) /\ ServeInvalidate(t) /\ UNCHANGED <<buildVars, jobVars, searchVars>>
    \/ \E t \in Threads : UmapValidate(t) /\ UNCHANGED <<buildVars, jobVars, searchVars>>
    \/ \E t \in Threads : UmapLayout(t) /\ UNCHANGED <<buildVars, jobVars, searchVars>>
    \/ \E t \in Threads : UmapGetLookup(t) /\ UNCHANGED <<buildVars, jobVars, searchVars>>
    \/ \E t \in Threads : UmapGetLayout(t) /\ UNCHANGED <<buildVars, jobVars, searchVars>>
    \/ \E t \in Threads : UmapSaved(t) /\ UNCHANGED <<buildVars, jobVars, searchVars>>
    \/ \E t \in Threads : UmapOpenFails(t) /\ UNCHANGED <<buildVars, jobVars, searchVars>>
    \/ \E t \in Threads : UmapDumpFails(t) /\ UNCHANGED <<buildVars, jobVars, searchVars>>

SpecLayout == InitLayout /\ [][NextLayout]_vars

\* ------------------------------------------------- search by image (api.py)
\* the text of a form field is its sequence of characters
DigitChars == <<"0", "1", "2", "3", "4", "5", "6", "7", "8", "9">>

IsDigit(c) == \E d \in 1..Len(DigitChars) : DigitChars[d] = c

DigitValue(c) == (CHOOSE d \in 1..Len(DigitChars) : DigitChars[d] = c) - 1

\* the digits of an int() argument, its sign taken off
Unsigned(text) == IF text # <<>> /\ text[1] \in {"-", "+"} THEN Tail(text) ELSE text

RECURSIVE DigitsValue(_)
DigitsValue(digits) ==
    IF digits = <<>> THEN 0
    ELSE 10 * DigitsValue(SubSeq(digits, 1, Len(digits) - 1)) + DigitValue(digits[Len(digits)])

\* int(text) raises ValueError
IntTextRaises(text) ==
    \/ Unsigned(text) = <<>>
    \/ \E i \in 1..Len(Unsigned(text)) : ~IsDigit(Unsigned(text)[i])

\* int(text)
IntOfText(text) ==
    IF text[1] = "-" THEN 0 - DigitsValue(Unsigned(text)) ELSE DigitsValue(Unsigned(text))

\* str(i) for 0 <= i <= 9
DigitText(i) == <<DigitChars[i + 1]>>

\* request.form of POST /search-by-image: <<name, text>> pairs. The field is
\* left out, holds a count around the size of the index, the default written
\* out, a negative count, no text, a word, or is sent under the name k
Forms ==
    {<<>>}
    \cup {<< <<"top_k", DigitText(k)>> >> : k \in Ks}
    \cup {<< <<"top_k", text>> >> : text \in {<<"1", "0", "0">>, <<"-", "1">>, <<>>, <<"x">>}}
    \cup {<< <<"k", DigitText(1)>> >>}

BadRequest == [code |-> 400, k |-> 0, I |-> <<>>, D |-> <<>>, body |-> <<>>]

\* mutant: line 623 left out, the k of the request handed to the index as it is
search_by_image_NoClamp(form, vectors, q) ==
    IF HasArg(form, "top_k") /\ IntTextRaises(ArgOf(form, "top_k"))
    THEN {BadRequest}
    ELSE LET k == IF HasArg(form, "top_k") THEN IntOfText(ArgOf(form, "top_k")) ELSE TOP_K
         IN { [code |-> 200, k |-> k, I |-> r.I, D |-> r.D,
               body |-> [j \in 1..Len(r.I) |-> [id |-> r.I[j], distance |-> r.D[j]]]] :
              r \in IndexSearch(vectors, q, Max2(k, 0)) }

\* search_by_image (api.py 601-629) for a readable image file whose feature
\* vector is q: the responses it can give, each with the k and the hits of its
\* faiss_index.search call
search_by_image(form, vectors, q) ==
    IF HasArg(form, "top_k") /\ IntTextRaises(ArgOf(form, "top_k"))
    THEN {BadRequest}
    ELSE LET top_k == IF HasArg(form, "top_k") THEN IntOfText(ArgOf(form, "top_k")) ELSE TOP_K
             k == Clamp(top_k, Len(vectors))
         IN { [code |-> 200, k |-> k, I |-> r.I, D |-> r.D,
               body |-> [j \in 1..Len(r.I) |-> [id |-> r.I[j], distance |-> r.D[j]]]] :
              r \in IndexSearch(vectors, q, k) }

\* an index over one to NumVectors rows and the feature vector of the image
InitImageSearch ==
    /\ InitCache /\ InitBuild /\ InitJob /\ InitServe
    /\ index_vectors \in UNION {[1..n -> Vec] : n \in 1..NumVectors}
    /\ query_vec \in Vec
    /\ full_search = None
    /\ subset_search = None
    /\ image_search = None
    /\ text_layout = None
    /\ embed_run = None

SearchByImage(form) ==
    /\ image_search = None
    /\ \E out \in search_by_image(form, index_vectors, query_vec) :
           image_search' = [form |-> form, out |-> out]
    /\ UNCHANGED <<index_vectors, query_vec, full_search, subset_search, text_layout,
                   embed_run>>

NextImageSearch ==
    \E form \in Forms :
        SearchByImage(form) /\ UNCHANGED <<cacheVars, histVars, buildVars, jobVars, serveVars>>

SpecImageSearch == InitImageSearch /\ [][NextImageSearch]_vars

\* ---------------------------------------------------------- texts in a layout
\* get_umap, POST (routes_dataset_scoped.py 1052-1116) on a layout-cache miss,
\* for a body whose image_ids are integers in range; a coordinate is a number
Coords == 0..MaxCoord

\* reducer.fit_transform(image_vectors): one point per row, wherever the layout
\* algorithm puts it; the results it can give. No result: umap-learn validates
\* its input with check_array, which raises for a matrix of no rows
fit_transform(n) == IF n = 0 THEN {} ELSE [1..n -> Coords]

RECURSIVE SumSeq(_)
SumSeq(s) == IF s = <<>> THEN 0 ELSE Head(s) + SumSeq(Tail(s))

\* np.mean(points, axis=0)
Mean(points) == Frac(SumSeq(points), Len(points))

\* line 1096: {img_id: image_points_np[i] for i, img_id in enumerate(image_ids)};
\* a later position of an id replaces an earlier one
id_to_point(image_ids, image_points) ==
    [id \in Range(image_ids) |->
        image_points[CHOOSE i \in 1..Len(image_ids) :
                        /\ image_ids[i] = id
                        /\ \A j \in (i + 1)..Len(image_ids) : image_ids[j] # id]]

\* lines 1104-1116 for the hits I[0] of one text
text_point(image_ids, image_points, hits) ==
    LET allowed_ids == Range(image_ids)
        in_subset == SelectSeq(hits, LAMBDA i : i \in allowed_ids)
        hit_ids == IF allowed_ids # {} /\ in_subset # <<>> THEN in_subset ELSE hits
        points_of == id_to_point(image_ids, image_points)
        known == SelectSeq(hit_ids, LAMBDA i : i \in DOMAIN points_of)
        points == [j \in 1..Len(known) |-> points_of[known[j]]]
    IN IF points = <<>> THEN Mean(image_points) ELSE Mean(points)

\* a text of the body: whether it is blank, and the vector embed_text gives it
Texts == [blank : BOOLEAN, vec : Vec]

TextLists == UNION {[1..n -> Texts] : n \in 0..MaxTexts}

\* image_ids of the body, in range
SubsetLists == UNION {[1..n -> 0..(NumVectors - 1)] : n \in 0..MaxIds}

\* the responses get_umap can give
get_umap(vectors, image_ids, body_texts, text_k) ==
    LET texts == SelectSeq(body_texts, LAMBDA t : ~t.blank)
        k == Clamp(text_k, Len(image_ids))
        found == [j \in 1..Len(texts) |-> {r.I : r \in IndexSearch(vectors, texts[j].vec, k)}]
        failure(code) == [code |-> code, image_points |-> <<>>, hits |-> <<>>,
                          text_points |-> <<>>]
    IN IF image_ids = <<>> /\ texts = <<>>
       THEN {failure(400)}
       ELSE IF fit_transform(Len(image_ids)) = {}
       THEN {failure(500)}
       ELSE { [code |-> 200, image_points |-> image_points, hits |-> hits,
               text_points |-> [j \in 1..Len(texts) |->
                                   text_point(image_ids, image_points, hits[j])]] :
              image_points \in fit_transform(Len(image_ids)),
              hits \in {h \in [1..Len(texts) -> UNION {found[j] : j \in 1..Len(texts)}] :
                          \A j \in 1..Len(texts) : h[j] \in found[j]} }

TextLayout(image_ids, body_texts, text_k) ==
    /\ text_layout = None
    /\ \E out \in get_umap(index_vectors, image_ids, body_texts, text_k) :
           text_layout' = [image_ids |-> image_ids, texts |-> body_texts,
                           text_k |-> text_k, out |-> out]
    /\ UNCHANGED <<index_vectors, query_vec, full_search, subset_search, image_search,
                   embed_run>>

NextTextLayout ==
    \E image_ids \in SubsetLists, body_texts \in TextLists, text_k \in Ks :
        TextLayout(image_ids, body_texts, text_k)
            /\ UNCHANGED <<cacheVars, histVars, buildVars, jobVars, serveVars>>

SpecTextLayout == InitSearching /\ [][NextTextLayout]_vars

\* ------------------------------------------------------------- embed_images
\* clip_service.embed_images (lines 25-48), one step per batch. The paths are
\* files of distinct names; Image.open raises for the file `bad`, if there is one
PathList(n, down) == [i \in 1..n |-> [name |-> IF down THEN n + 1 - i ELSE i]]

EmbedStarts ==
    { [paths |-> PathList(n, down), bad |-> bad, progress_cb |-> cb, i |-> 0,
       all_embeddings |-> <<>>, calls |-> <<>>, at |-> "loop"] :
      n \in 0..MaxEmbed, down \in BOOLEAN, bad \in {0, 1, MaxEmbed}, cb \in BOOLEAN }

\* mutant: the callback is told where the batch began
Done_BatchStart(i, batch_len, total) == i

\* line 45: done = min(i + len(batch_paths), total)
Done(i, batch_len, total) == Min2(i + batch_len, total)

\* lines 34-46: one round of `for i in range(0, len(paths), batch_size)`
EmbedBatch ==
    LET e == embed_run
        total == Len(e.paths)
        batch_paths == SubSeq(e.paths, e.i + 1, Min2(e.i + batch_size, total))
    IN
    /\ e # None
    /\ e.at = "loop"
    /\ e.i < total
    /\ embed_run' =
          IF \E j \in 1..Len(batch_paths) : batch_paths[j].name = e.bad
          THEN [e EXCEPT !.at = "raised"]
          ELSE [e EXCEPT !.i = e.i + batch_size,
                         !.all_embeddings = Append(@, [j \in 1..Len(batch_paths) |->
                                                          Row(batch_paths[j], 1)]),
                         !.calls = IF e.progress_cb
                                   THEN Append(@, [done |-> Done(e.i, Len(batch_paths), total),
                                                   total |-> total])
                                   ELSE @]
    /\ UNCHANGED <<index_vectors, query_vec, full_search, subset_search, image_search,
                   text_layout>>

RECURSIVE Cat(_)
Cat(batches) == IF batches = <<>> THEN <<>> ELSE Head(batches) \o Cat(Tail(batches))

\* line 48: torch.cat(all_embeddings, dim=0), which raises for an empty list
EmbedReturn ==
    LET e == embed_run IN
    /\ e # None
    /\ e.at = "loop"
    /\ e.i >= Len(e.paths)
    /\ embed_run' = IF e.all_embeddings = <<>>
                    THEN [e EXCEPT !.at = "raised"]
                    ELSE [e EXCEPT !.at = "returned"]
    /\ UNCHANGED <<index_vectors, query_vec, full_search, subset_search, image_search,
                   text_layout>>

InitEmbed ==
    /\ InitCache /\ InitBuild /\ InitJob /\ InitServe
    /\ index_vectors = <<>>
    /\ query_vec = <<>>
    /\ full_search = None
    /\ subset_search = None
    /\ image_search = None
    /\ text_layout = None
    /\ embed_run \in EmbedStarts

NextEmbed ==
    \/ EmbedBatch /\ UNCHANGED <<cacheVars, histVars, buildVars, jobVars, serveVars>>
    \/ EmbedReturn /\ UNCHANGED <<cacheVars, histVars, buildVars, jobVars, serveVars>>

SpecEmbed == InitEmbed /\ [][NextEmbed]_vars

\* ------------------------------------------------------- resume after restart
\* A server process started over a dataset directory that an earlier process
\* left behind: dataset.json says processing (the earlier process stopped
\* during the job) or error (its job failed), the uploaded files are on disk,
\* and JobManager.__init__ has made the state dictionary empty. This is the
\* case resume_processing exists for. The upload was a small one, some of its
\* files unreadable, or one of NumOriginals images, enough for the thumbnail
\* loop to report its progress a second time (jobs.py 53).
InitResume ==
    /\ InitCache /\ InitBuild /\ InitServe /\ InitSearch
    /\ \E s \in {"processing", "error"} :
          /\ status = s
          /\ meta_error = IF s = "error" THEN "cannot identify image file" ELSE NoError
    /\ job_state = [stage |-> NoKey, progress |-> NoProgress, processed |-> NoCount,
                    skipped |-> NoCount, error |-> NoKey]
    /\ jpc = "j_none"
    /\ \/ \E n \in 1..MaxZip : \E r \in SUBSET (1..n) :
             /\ originals = 1..n
             /\ readable = r
       \/ /\ originals = 1..NumOriginals
          /\ readable = 1..NumOriginals
    /\ idx = 0
    /\ processed = 0
    /\ skipped = 0
    /\ exc = NoKey
    /\ submissions = 0
    /\ refused = FALSE
    /\ InitHandlers

NextResume ==
    \/ \E t \in Threads : ResumeRead(t) /\ UNCHANGED <<cacheVars, histVars, buildVars, serveVars, searchVars>>
    \/ \E t \in Threads : ResumeCheck(t) /\ UNCHANGED <<cacheVars, histVars, buildVars, serveVars, searchVars>>
    \/ \E t \in Threads : ResumeProcessing(t) /\ UNCHANGED <<cacheVars, histVars, buildVars, serveVars, searchVars>>
    \/ WorkerStep

SpecResume == InitResume /\ [][NextResume]_vars

\* ------------------------------------------------------------------ claims
\* C1: as long as id d has seen no invalidate, no eviction and no builder failure,
\* its builder has been invoked at most once, every get(d) that returned got the
\* same context object, and a get(d) that returned implies exactly one invocation
C1_BuiltOnce ==
    \A d \in Datasets :
        (~invalidated[d] /\ ~evicted[d] /\ ~failed[d]) =>
            /\ builds[d] <= 1
            /\ Cardinality(returned[d]) <= 1
            /\ (returned[d] # {} => builds[d] = 1)

\* two overlapping get(d) calls: one built, the other waited and then hit
C1_Witness ==
    \E d \in Datasets :
        /\ ~invalidated[d] /\ ~evicted[d] /\ ~failed[d]
        /\ collapsed[d]
        /\ builds[d] = 1
        /\ Cardinality(returned[d]) = 1

\* C2: in every reachable state at most one builder invocation per dataset id is
\* executing
C2_OneBuilderPerId ==
    \A d \in Datasets :
        Cardinality({t \in AllThreads : pc[t] = "g_building" /\ dataset_id[t] = d}) <= 1

\* a builder for d runs after an earlier one raised, while another get(d) waits
C2_Witness ==
    \E d \in Datasets, t, u \in Threads :
        /\ dataset_id[t] = d /\ pc[t] = "g_building"
        /\ dataset_id[u] = d /\ pc[u] = "g_acq_build"
        /\ failed[d]

\* C3: no thread holds the cache lock while its builder runs; the cache lock is
\* held only inside the insertion block, so builders of other ids, hits and
\* invalidates never wait for a builder
C3_CacheLockNotHeldAcrossBuild ==
    /\ \A t \in AllThreads : pc[t] = "g_building" => cache_lock # t
    /\ cache_lock # NoThread => pc[cache_lock] = "g_evict"

\* two builders of different ids run while a third thread does its insertion
C3_Witness ==
    \E t, u, v \in Threads :
        /\ pc[t] = "g_building" /\ pc[u] = "g_building"
        /\ dataset_id[t] # dataset_id[u]
        /\ cache_lock = v

\* C4: a step in which builder(d) raises leaves the cache as it was, without an
\* entry for d, returns nothing, releases d's build lock and leaves no build for d
\* in flight, so the next get(d) misses and calls its builder
C4_BuilderFailure ==
    [][\A t \in Threads :
          BuilderRaise(t) =>
              LET d == dataset_id[t] IN
              /\ failed'[d]
              /\ cache' = cache
              /\ ~Has(cache', d)
              /\ returned' = returned
              /\ build_locks'[d] = NoThread
              /\ ~(\E u \in AllThreads : dataset_id'[u] = d /\ pc'[u] = "g_building")]_vars

\* after a failure the builder of d was called again and its result is cached
C4_Witness ==
    \E d \in Datasets :
        /\ failed[d] /\ ~invalidated[d] /\ ~evicted[d]
        /\ builds[d] >= 2
        /\ Has(cache, d)

\* C5: every entry the insertion loop removes is, among the cached ids, the one
\* whose last access (hit or insertion) is the oldest, and the cache is over
\* capacity when it is removed
C5_EvictsLeastRecent ==
    [][\A t \in Threads :
          (pc[t] = "g_evict" /\ cache' # cache) =>
              LET live == SelectSeq(recency, LAMBDA k : Has(cache, k)) IN
              /\ Len(cache) > max_size
              /\ Keys(cache') = Keys(cache) \ {Head(live)}
              /\ \A k \in Keys(cache') : CacheGet(cache', k) = CacheGet(cache, k)]_vars

\* an id was evicted although an entry promoted by a hit is still cached
C5_Witness ==
    \E d, k \in Datasets :
        /\ evicted[k] /\ ~Has(cache, k)
        /\ promoted[d] /\ Has(cache, d)
        /\ Len(cache) = max_size

\* C6: whenever the cache lock is free the cache holds at most max_size contexts
C6_Bounded == cache_lock = NoThread => Len(cache) <= max_size

\* the cache is full after an eviction
C6_Witness ==
    /\ cache_lock = NoThread
    /\ Len(cache) = max_size
    /\ \E d \in Datasets : evicted[d]

\* C7: a get(d) that finds d cached returns the cached context, calls no builder,
\* makes d the last (most recently used) entry and changes neither the cached ids,
\* nor the stored contexts, nor the order of the other entries
C7_HitFrame ==
    [][\A t \in Threads, d \in Datasets :
          ((GetCheck1(t, d) \/ (GetCheck2(t) /\ dataset_id[t] = d)) /\ Has(cache, d)) =>
              /\ builds' = builds
              /\ pc'[t] = "idle"
              /\ CacheGet(cache, d) \in returned'[d]
              /\ Keys(cache') = Keys(cache)
              /\ \A k \in Keys(cache) : CacheGet(cache', k) = CacheGet(cache, k)
              /\ cache'[Len(cache')].key = d
              /\ Without(cache', d) = Without(cache, d)]_vars

\* a hit has moved d behind another entry
C7_Witness ==
    \E d \in Datasets :
        /\ promoted[d]
        /\ Len(cache) = 2
        /\ cache[2].key = d
        /\ cache[2].ctx \in returned[d]

\* C8: invalidate(d) removes exactly d's entry (nothing if d is not cached) and
\* keeps the others in order; and no context built before an invalidate(d) that
\* ran with no build for d in flight is cached afterwards, so a get(d) after it
\* has to call its builder
C8_Invalidate ==
    /\ [][\A t \in Threads, d \in Datasets :
             Invalidate(t, d) =>
                 /\ Keys(cache') = Keys(cache) \ {d}
                 /\ \A k \in Keys(cache') : CacheGet(cache', k) = CacheGet(cache, k)
                 /\ \A i, j \in 1..Len(cache') :
                        i < j => Lookup(cache, cache'[i].key) < Lookup(cache, cache'[j].key)
                 /\ builds' = builds]_vars
    /\ [](\A i \in 1..Len(cache) : cache[i].ctx.n > floor[cache[i].key])

\* d was built, invalidated and built again
C8_Witness ==
    \E d \in Datasets :
        /\ invalidated[d] /\ ~evicted[d] /\ ~failed[d]
        /\ builds[d] = 2
        /\ Has(cache, d)
        /\ floor[d] >= 1

\* C10: of two consecutive build_context runs that list the same thumbnail
\* paths in the same order, the second makes no embed_images call and returns
\* exactly the embedding matrix that the archive held when the first finished.
C10_SecondBuildHitsArchive ==
    (prev.kind = "run" /\ bpc # "b_idle" /\ image_paths = prev.paths) =>
        /\ embed_calls = embed_at_start
        /\ bpc # "b_failed"
        /\ bpc = "b_done" => built.embeddings = prev.archive.embeddings

C10_Witness ==
    /\ prev.kind = "run"
    /\ bpc = "b_done"
    /\ image_paths = prev.paths
    /\ Len(image_paths) >= 2
    /\ embed_calls >= 1
    /\ built.embeddings = cache_file.embeddings

C11_AnyChangedListReembeds ==
    (/\ bpc \in {"b_done", "b_failed"}
     /\ archive_at_start # NoFile
     /\ ToList(archive_at_start.paths) # StrList(image_paths)) =>
        /\ embed_calls = embed_at_start + 1
        /\ cache_file = save_cache(embed_images(image_paths, embed_calls), image_paths)
        /\ bpc = "b_done" => built.embeddings = embed_images(image_paths, embed_calls)

\* C11, amended: the same for every run whose path list is not empty. With no
\* thumbnail left embed_images raises, the run fails and the old archive stays.
C11_ChangedListReembeds ==
    Len(image_paths) > 0 => C11_AnyChangedListReembeds

\* a run re-embedded a list that shares a path with the archive it found
C11_Witness ==
    /\ bpc = "b_done"
    /\ archive_at_start # NoFile
    /\ ToList(archive_at_start.paths) # StrList(image_paths)
    /\ \E i \in 1..Len(image_paths), j \in 1..Len(archive_at_start.paths.items) :
           /\ Str(image_paths[i]) = archive_at_start.paths.items[j]
           /\ built.embeddings.rows[i] # archive_at_start.embeddings.rows[j]
    /\ cache_file.embeddings = built.embeddings

\* C12: whatever point of save_cache the process died at, the archive file is
\* absent or a complete archive, and a build_context run that finds it neither
\* fails on loading it nor returns anything but complete rows.
C12_ArchiveAtomic ==
    /\ cache_file # PartialFile
    /\ ~(bpc = "b_failed" /\ LoadRaises(archive_at_start))

\* C13: at any time at most one thread is writing the dataset's layout cache
\* file, and every thread writing it holds the dataset's build lock.
C13_SingleWriterUnderBuildLock ==
    /\ Cardinality(umap_writers) <= 1
    /\ \A t \in umap_writers : build_locks[JobDataset] = t

\* C14: get_or_build_pca_embeddings returns the persisted projection, fitting
\* nothing and writing nothing, exactly when the projection archive holds the
\* current ordered path list and a width of at most cfg.pca_dim; in every other
\* case it fits a new projector and overwrites the projector model file and the
\* projection archive with the result.
C14_ProjectionReusedIffValid ==
    [][(bpc = "b_pca" /\ bpc' # "b_pca") =>
          IF /\ pca_cache_file # NoFile
             /\ ToList(pca_cache_file.paths) = StrList(image_paths)
             /\ pca_cache_file.dim <= PCA_DEFAULT_DIM
          THEN /\ pca_embeddings_np' = AsFloat32(pca_cache_file.embeddings)
               /\ fit_calls' = fit_calls
               /\ pca_cache_file' = pca_cache_file
               /\ pca_model_file' = pca_model_file
          ELSE /\ fit_calls' = fit_calls + 1
               /\ pca_model_file' # pca_model_file
               /\ pca_model_file'.fit = fit_calls'
               /\ pca_cache_file' # pca_cache_file
               /\ ToList(pca_cache_file'.paths) = StrList(image_paths)
               /\ pca_cache_file'.embeddings = pca_embeddings_np'
               /\ \A i \in 1..NumRows(pca_embeddings_np') :
                      pca_embeddings_np'.rows[i].fit = fit_calls'
    ]_vars

\* three runs: the first fits, the second finds a stale projection archive and
\* refits, the third finds both archives current and reuses the projection
C14_Witness ==
    /\ bpc = "b_finish"
    /\ runs = 3
    /\ embed_calls = 2 /\ embed_at_start = 2
    /\ fit_calls = 2
    /\ pca_embeddings_np = AsFloat32(pca_cache_file.embeddings)

\* C15: a context built by build_context pairs each embedding row with the
\* projection of that row's image; when the run re-embedded because the path
\* list differed from the archived one, the projection is fitted in that run
\* from the new embeddings; and after a successful run the embedding archive
\* and the projection archive both store the context's path list.
C15_ProjectionMatchesEmbeddings ==
    bpc = "b_done" =>
        /\ NumRows(built.pca_embeddings_np) = NumRows(built.embeddings)
        /\ \A i \in 1..NumRows(built.embeddings) :
               /\ built.pca_embeddings_np.rows[i].row.of = built.embeddings.rows[i].of
               /\ built.embeddings.rows[i].of = built.image_paths[i].name
        /\ (archive_at_start # NoFile /\ embed_calls > embed_at_start) =>
               \A i \in 1..NumRows(built.embeddings) :
                   /\ built.pca_embeddings_np.rows[i].row = built.embeddings.rows[i]
                   /\ built.pca_embeddings_np.rows[i].fit = fit_calls
                   /\ built.pca_model.fit = fit_calls
        /\ ToList(cache_file.paths) = StrList(built.image_paths)
        /\ ToList(pca_cache_file.paths) = StrList(built.image_paths)

\* a run that found an archive for another path list, re-embedded and finished
C15_Witness ==
    /\ bpc = "b_done"
    /\ archive_at_start # NoFile
    /\ ToList(archive_at_start.paths) # StrList(built.image_paths)
    /\ embed_calls = embed_at_start + 1
    /\ fit_calls >= 2

\* C16: a search returns exactly min(max(k, 1), M) results, in non-decreasing
\* order of distance, no id twice, the nearest candidate first; M is the number
\* of rows for an unrestricted search and the number of valid ids listed for a
\* subset search.
C16_ClampedSortedDistinct ==
    /\ full_search # None =>
           LET r == full_search.results IN
           /\ Len(r) = Min2(Max2(full_search.k, 1), Len(index_vectors))
           /\ \A i, j \in 1..Len(r) : i < j =>
                  r[i].distance <= r[j].distance /\ r[i].id # r[j].id
           /\ \A v \in 1..Len(index_vectors) :
                  r[1].distance <= SumSq(index_vectors[v], query_vec, Len(query_vec))
    /\ subset_search # None =>
           LET r == subset_search.results
               valid == SelectSeq(subset_search.image_ids,
                                  LAMBDA i : 0 <= i /\ i < Len(index_vectors))
               M == IF subset_search.image_ids = <<>> THEN Len(index_vectors)
                    ELSE Len(valid)
           IN
           /\ Len(r) = Min2(Max2(subset_search.k, 1), M)
           /\ \A i, j \in 1..Len(r) : i < j =>
                  r[i].distance <= r[j].distance /\ r[i].id # r[j].id
           /\ \A v \in 1..Len(valid) : Len(r) > 0 =>
                  r[1].distance <= SumSq(index_vectors[valid[v] + 1], query_vec, Len(query_vec))

C18_TiesByRowIndex ==
    /\ full_search # None =>
           \A i, j \in 1..Len(full_search.results) :
               (i < j /\ full_search.results[i].distance = full_search.results[j].distance)
                   => full_search.results[i].id <= full_search.results[j].id
    /\ subset_search # None =>
           \A i, j \in 1..Len(subset_search.results) :
               (i < j /\ subset_search.results[i].distance = subset_search.results[j].distance)
                   => subset_search.results[i].id <= subset_search.results[j].id

\* C19: a search or layout request that carries ids that are not integers, ids
\* out of range, a parameter that is not an integer or no required field is
\* answered with a 4xx status; and when such a request is the only one made,
\* no builder has run and the Context Cache holds nothing.
C19_RejectedBeforeCache ==
    LET NotInts(x) == x.t = "list" /\ \E i \in 1..Len(x.v) : x.v[i].t # "int"
        OutOfRange(x) == x.t = "list" /\ \E i \in 1..Len(x.v) :
                             x.v[i].t = "int" /\ x.v[i].v \notin ImageIds
        NotIntParam(in) == \/ \E i \in 1..Len(in.params) : in.params[i][2].t # "int"
                           \/ in.top_k.t \notin {"absent", "int"}
        Missing(op, in) == IF op = "search"
                           THEN in.query = JAbsent
                           ELSE in.image_ids = JList(<<>>) /\ in.texts = JList(<<>>)
        Rejectable(r) == \/ NotInts(r.input.image_ids)
                         \/ OutOfRange(r.input.image_ids)
                         \/ NotIntParam(r.input)
                         \/ Missing(r.op, r.input)
    IN
    /\ \A i \in 1..Len(replies) :
           Rejectable(replies[i]) => replies[i].code \in 400..499
    /\ (/\ Len(replies) = 1
        /\ \A t \in Threads : req[t] = NoReq
        /\ Rejectable(replies[1])) =>
           /\ TotalBuilds = 0
           /\ cache = <<>>

\* C20: of two layout POSTs served by the same cached context, the first
\* answered 200, when the one that arrived second carries the same image_ids in the same order, the same texts and the
\* same params as the first, it is answered from the layout cache, the layout
\* algorithm does not run and the response is the first one's; when it differs
\* in the ids, their order, the texts or a parameter value, its response is not
\* the first one's entry.
C20_IdenticalLayoutHits ==
    \A i, j \in 1..Len(replies) :
        (/\ replies[i].id < replies[j].id
         /\ replies[i].op = "umap" /\ replies[j].op = "umap"
         /\ replies[i].n = replies[j].n
         /\ replies[i].code = 200) =>
            LET a == replies[i].input
                b == replies[j].input
                ids(in) == IF in.image_ids = JNull THEN AllIds ELSE Ints(in.image_ids)
            IN
            /\ a = b => /\ replies[j].code = 200
                        /\ ~replies[j].ran
                        /\ replies[j].body = replies[i].body
            /\ (/\ replies[j].code = 200
                /\ \/ ids(a) # ids(b)
                   \/ a.texts # b.texts
                   \/ Range(a.params) # Range(b.params)) =>
                   replies[j].body # replies[i].body

\* C21: a layout request answered 200, by POST or by the legacy GET, never
\* carries a layout that was stored under another cache-format version, also
\* when the context loaded such layouts from the cache file an older release
\* wrote.
C21_NoCrossVersionHit ==
    \A i \in 1..Len(replies) :
        (replies[i].op \in {"umap", "umap_get"} /\ replies[i].code = 200) =>
            replies[i].body.by = UMAP_CACHE_VERSION

\* the context holds the previous release's layouts of all images with default
\* parameters, and a POST and a GET for that very layout were both computed anew
C21_Witness ==
    /\ Len(replies) = 2
    /\ replies[1].op = "umap" /\ replies[1].input = P0
    /\ replies[2].op = "umap_get" /\ replies[2].input = GetPayload(<<>>)
    /\ replies[1].code = 200 /\ replies[2].code = 200
    /\ replies[1].ran /\ replies[2].ran
    /\ replies[1].n = replies[2].n
    /\ \E e \in umap_mem[replies[1].n] :
           e.k = umap_cache_key(AllIds, <<>>, <<>>, PreviousVersion)
    /\ \E e \in umap_mem[replies[1].n] : e.k = legacy_key(<<>>, PreviousVersion)

\* C22: a layout request whose write of the cache file failed is answered 200
\* with the layout it computed; from then on the context's in-memory cache has
\* an entry under the request's key, and a request for the same key that the
\* same context serves afterwards is answered from it without a new layout.
C22_FailedWriteStillServes ==
    \A i \in 1..Len(replies) :
        replies[i].wrote = "failed" =>
            /\ replies[i].code = 200
            /\ replies[i].ran
            /\ replies[i].body.key = replies[i].key
            /\ DictHas(umap_mem[replies[i].n], replies[i].key)
            /\ \A j \in 1..Len(replies) :
                   (/\ replies[j].seen >= i
                    /\ replies[j].n = replies[i].n
                    /\ replies[j].op = replies[i].op
                    /\ replies[j].input = replies[i].input) =>
                       /\ replies[j].code = 200
                       /\ ~replies[j].ran
                       /\ replies[j].body.key = replies[i].key

\* the write of the first request failed and the same request, made again of
\* the same context, was answered from memory with the first response
C22_Witness ==
    /\ Len(replies) = 2
    /\ replies[1].wrote = "failed"
    /\ replies[2].seen = 1
    /\ replies[2].n = replies[1].n
    /\ replies[2].input = replies[1].input
    /\ replies[2].code = 200 /\ ~replies[2].ran
    /\ replies[2].body = replies[1].body
    /\ umap_cache_file \in {NoFile, PartialFile}

\* the order of the stages of one run (jobs.py 24, 65, 80, 94, 102 after
\* job_manager.py 24)
StageOrder == <<"queued", "thumbnails", "indexing", "embeddings", "atlas", "ready">>

\* C23: the stage of the Job State changes only to the next stage of the order
\* queued, thumbnails, indexing, embeddings, atlas, ready, or to error, or,
\* when no run is under way (no stage yet, error or ready), to queued by a new
\* submission; it never moves backwards and never skips a stage.
C23_StagesInOrder ==
    [][\/ job_state'.stage = job_state.stage
       \/ job_state'.stage = "error"
       \/ \E i \in 1..(Len(StageOrder) - 1) :
              job_state.stage = StageOrder[i] /\ job_state'.stage = StageOrder[i + 1]
       \/ /\ job_state'.stage = "queued"
          /\ job_state.stage \in {NoKey, "error", "ready"}]_vars

\* C24: a job whose configuration loaded and whose thumbnailing ended with at
\* least one image processed (it is at line 77, nothing having failed) goes on
\* to stage ready with progress 1 and persisted status ready.
C24_ReachesReady ==
    (jpc = "j_invalidate") ~>
        (/\ job_state.stage = "ready"
         /\ job_state.progress = Frac(1, 1)
         /\ status = "ready")

\* C25: in a run whose thumbnailing ended with no image processed (every
\* original failed, or there was none), the stage of the Job State is never
\* indexing, embeddings, atlas or ready, and once the run has ended the Job
\* State holds a non-empty error message and the stage is error until a new
\* submission queues.
C25_NoImageJobFails ==
    (/\ ~unhandled
     /\ jpc \in {"j_thumbs", "j_except", "j_done"}
     /\ idx = Cardinality(collected)
     /\ processed = 0) =>
        /\ job_state.stage \notin {"indexing", "embeddings", "atlas", "ready"}
        /\ jpc = "j_done" =>
               /\ job_state.error \in {"No images found in uploaded dataset",
                                       "No valid images found in uploaded dataset"}
               /\ \/ job_state.stage = "error"
                  \/ job_state.stage = "queued" /\ pending > 0

C25_Witness ==
    /\ ~unhandled
    /\ jpc = "j_done"
    /\ Cardinality(collected) = MaxZip
    /\ idx = Cardinality(collected)
    /\ processed = 0
    /\ skipped = MaxZip
    /\ job_state.stage = "error"
    /\ job_state.error = "No valid images found in uploaded dataset"
    /\ status = "error"

\* C26: a step of the thumbnail loop over an original that cannot be decoded
\* adds one to skipped and stays in the loop; after every step of the loop
\* processed + skipped is the number of originals handled, so it is the number
\* of originals when the loop ends; and a run that leaves the loop with some
\* but not all originals processed sets stage indexing and goes on to line 77.
C26_SkippedCountedJobGoesOn ==
    [][jpc = "j_thumbs" =>
          /\ processed' + skipped' = idx'
          /\ (idx' > idx /\ processed' = processed) =>
                 (skipped' = skipped + 1 /\ jpc' = "j_thumbs")
          /\ (jpc' # "j_thumbs" /\ 0 < processed /\ processed < Cardinality(collected)) =>
                 /\ processed + skipped = Cardinality(collected)
                 /\ jpc' = "j_invalidate"
                 /\ job_state'.stage = "indexing"]_vars

C26_Witness ==
    /\ jpc = "j_invalidate"
    /\ job_state.stage = "indexing"
    /\ Cardinality(collected) = MaxZip
    /\ processed = 1
    /\ skipped = MaxZip - 1
    /\ skipped >= 1

\* C27: every submission is followed by stage ready or stage error: a Job
\* State in stage queued does not stay there forever.
C27_EveryJobEnds ==
    (job_state.stage = "queued") ~> (job_state.stage \in {"ready", "error"})

\* C28: while the job is in its build_context call (stage embeddings) the
\* processed counter of the Job State does not decrease, and when the call has
\* ended the counter is the number of images of the dataset.
C28_ProcessedReachesCount ==
    [][jpc = "j_build" =>
          /\ job_state'.processed >= job_state.processed
          /\ jpc' # "j_build" => job_state'.processed = Cardinality(thumb_root)]_vars

\* C29: at most one upload-zip request of the dataset is answered 202; every
\* other one is answered 409, having extracted nothing and submitted nothing,
\* so the submissions that uploads made are at most one.
C29_OneUploadAccepted ==
    Cardinality({i \in 1..Len(answers) :
                    answers[i].op = "upload" /\ answers[i].code = 202}) <= 1

C31_NoStaleContextServed ==
    cache_lock = NoThread =>
        \A i \in 1..Len(cache) : cache[i].ctx.n > stale[cache[i].key]

\* C32: once a job has written ready or error to dataset.json, the persisted
\* status changes only in a step of submit_processing.
C32_FinalStatusKept ==
    [][(status \in {"ready", "error"} /\ status' # status) =>
          submissions' = submissions + 1]_vars

\* C33: a resume-processing request is accepted only when no job of the
\* dataset is queued or running, so the dataset never has more than one job
\* queued or running because of a resume (runs in which two uploads were
\* accepted are left to C29).
Accepted(op) == Cardinality({i \in 1..Len(answers) : answers[i] = [op |-> op, code |-> 202]})

C33_ResumeOnlyWhenNoJob ==
    [][(/\ Accepted("upload") <= 1
        /\ Len(answers') > Len(answers)
        /\ answers'[Len(answers')] = [op |-> "resume", code |-> 202]) =>
          (pending = 0 /\ WorkerFree)]_vars

\* C34: the Job State carries an error message only while its stage is error
\* (runs in which two uploads were accepted are left to C29).
C34_ErrorOnlyInErrorStage ==
    (Accepted("upload") <= 1 /\ job_state.stage # "error") => job_state.error = NoKey

\* C35: no interleaving of get and invalidate calls deadlocks. A thread waiting
\* for a build lock holds no lock at all; the holder of the cache lock is in
\* the insertion block, which waits for nothing; the holder of a build lock is
\* running the builder or the insertion block, so it waits for the cache lock
\* at most. Every wait therefore ends at a thread that is not waiting.
C35_NoDeadlock ==
    /\ \A t \in Threads :
           pc[t] = "g_acq_build" =>
               (cache_lock # t /\ \A d \in Datasets : build_locks[d] # t)
    /\ cache_lock # NoThread => pc[cache_lock] = "g_evict"
    /\ \A d \in Datasets :
           build_locks[d] \in Threads =>
               /\ pc[build_locks[d]] \in {"g_building", "g_evict"}
               /\ dataset_id[build_locks[d]] = d

\* C35, termination: under SpecFair every get call a thread has entered comes
\* to its end (it returns or raises).
C35_GetTerminates == \A t \in Threads : (pc[t] # "idle") ~> (pc[t] = "idle")

\* a get waits for the build lock of an id whose builder another thread runs,
\* while a third thread holds the cache lock in the eviction loop
C35_Witness ==
    \E t, u, w \in Threads :
        /\ pc[t] = "g_acq_build" /\ pc[u] = "g_building" /\ dataset_id[u] = dataset_id[t]
        /\ build_locks[dataset_id[t]] = u
        /\ pc[w] = "g_evict" /\ cache_lock = w

\* C36: in every context build_context returns, the path list, the metadata
\* list, the embedding matrix, the projection and the index have the same
\* number of entries, and the index has the width of the embedding matrix.
C36_ContextConsistent ==
    built # None =>
        /\ Len(built.metadata) = Len(built.image_paths)
        /\ NumRows(built.embeddings) = Len(built.image_paths)
        /\ NumRows(built.pca_embeddings_np) = Len(built.image_paths)
        /\ built.faiss_index.ntotal = Len(built.image_paths)
        /\ built.faiss_index.d = built.embeddings.width

\* a run that took both the embeddings and the projection from the archives,
\* after the thumbnail directory had held a different list
C36_Witness ==
    /\ bpc = "b_done" /\ built # None
    /\ runs = MaxRuns
    /\ embed_calls = embed_at_start
    /\ embed_calls >= 2
    /\ fit_calls = embed_calls
    /\ Len(built.image_paths) >= 2

\* a run that re-embedded a list of another length than the archive held
C36_WitnessRebuilt ==
    /\ bpc = "b_done" /\ built # None
    /\ embed_calls = embed_at_start + 1
    /\ archive_at_start # NoFile
    /\ NumRows(archive_at_start.embeddings) # Len(built.image_paths)

\* C37: a search whose body supplies a non-empty image_ids list answers only
\* with ids that the list names and that are row indices of the dataset.
C37_OnlySuppliedIds ==
    \A i \in 1..Len(replies) :
        LET r == replies[i] IN
        (/\ r.op = "search" /\ r.code = 200
         /\ r.input.image_ids # JAbsent /\ r.input.image_ids # JNull
         /\ r.input.image_ids.t = "list" /\ r.input.image_ids.v # <<>>) =>
            \A j \in 1..Len(r.body) :
                /\ \E x \in Range(r.input.image_ids.v) :
                       ~IntRaises(x) /\ IntOf(x) = r.body[j].id
                /\ r.body[j].id \in 0..(NumImages - 1)

\* C38: every text of a layout request that is not blank gets one coordinate,
\* in request order: the mean of the layout coordinates of its hits that are
\* among the requested ids, or the centroid of all item coordinates when no
\* hit is among them.
SameValue(a, b) == a.num * b.den = b.num * a.den /\ a.den > 0 /\ b.den > 0

C38_EveryTextPlaced ==
    (text_layout # None /\ text_layout.out.code # 400) =>
        LET image_ids == text_layout.image_ids
            texts == SelectSeq(text_layout.texts, LAMBDA t : ~t.blank)
            out == text_layout.out
        IN
        /\ out.code = 200
        /\ Len(out.text_points) = Len(texts)
        /\ \A j \in 1..Len(texts) :
              LET inside == SelectSeq(out.hits[j], LAMBDA i : i \in Range(image_ids))
              IN IF inside = <<>>
                 THEN SameValue(out.text_points[j], Mean(out.image_points))
                 ELSE \E pos \in [1..Len(inside) -> 1..Len(image_ids)] :
                         /\ \A i \in 1..Len(inside) : image_ids[pos[i]] = inside[i]
                         /\ SameValue(out.text_points[j],
                                      Frac(SumSeq([i \in 1..Len(inside) |->
                                                      out.image_points[pos[i]]]),
                                           Len(inside)))

\* C39: the callback is called once per batch with total = len(paths) and with
\* done the number of paths embedded so far, which grows with every call; when
\* embed_images returns, the last call had done = total and the rows are those
\* of the paths, one per path in the order of the list.
C39_ProgressPerBatch ==
    embed_run # None =>
        LET e == embed_run
            total == Len(e.paths)
            rows == Cat(e.all_embeddings)
        IN
        /\ Len(e.calls) = IF e.progress_cb THEN Len(e.all_embeddings) ELSE 0
        /\ \A j \in 1..Len(e.calls) :
              /\ e.calls[j].total = total
              /\ e.calls[j].done = Len(Cat(SubSeq(e.all_embeddings, 1, j)))
              /\ Len(e.all_embeddings[j]) \in 1..batch_size
              /\ j > 1 => e.calls[j].done > e.calls[j - 1].done
        /\ e.at = "returned" =>
              /\ Len(e.all_embeddings) = (total + batch_size - 1) \div batch_size
              /\ e.progress_cb => e.calls[Len(e.calls)].done = total
              /\ Matrix("float32", CLIP_DIM, rows) = embed_images(e.paths, 1)

\* a call over more than two batches, the last one not full, has returned
C39_Witness ==
    /\ embed_run # None
    /\ embed_run.at = "returned"
    /\ embed_run.progress_cb
    /\ Len(embed_run.calls) = 3
    /\ Len(embed_run.paths) > 2 * batch_size
    /\ Len(embed_run.paths) < 3 * batch_size
    /\ embed_run.paths[1].name > embed_run.paths[2].name

\* C40: the progress of the Job State is a fraction in [0, 1]; it is 0 whenever
\* the stage becomes queued, thumbnails, indexing, embeddings or atlas, and 1
\* whenever the stage is ready.
C40_ProgressInRange ==
    [][/\ job_state'.progress # NoProgress =>
             (0 <= job_state'.progress.num /\ job_state'.progress.num <= job_state'.progress.den)
       /\ (job_state'.stage # job_state.stage /\ job_state'.stage \in active_stages) =>
             job_state'.progress.num = 0
       /\ job_state'.stage = "ready" =>
             job_state'.progress.num = job_state'.progress.den]_vars

====
